---- MODULE Spec2Model ----
(***************************************************************************)
(* SkiRank daily pipeline: fetch -> reconcile -> validate -> write ->      *)
(* score -> rank, together with the operator actions on depth overrides.   *)
(*                                                                         *)
(* Units.  Every length that the code holds in centimetres with one        *)
(* decimal (snow depth, new snow, override depth, thresholds) is an        *)
(* integer number of millimetres here (20.0 cm = 200).  Temperatures are   *)
(* tenths of a degree, scores are tenths of a point, forecast confidence   *)
(* is in thousandths.  Python's None is the empty tuple, a present value x *)
(* is <<x>>.                                                               *)
(***************************************************************************)
EXTENDS Integers, Sequences, FiniteSets, TLC

VARIABLES
    \* --- fetch_all_resorts, one call (the fetcher specification)
    fpc,        \* "fetching" while the batch requests run, then "done"
    tries,      \* per batch: the outcome of every attempt made so far
    waits,      \* per batch: the seconds slept after each failed attempt
    bst,        \* per batch: "ready", "sleeping", "ok", "gaveup", "raised"
    fitems,     \* per batch: the items of the successful response
    forder,     \* the batches in the order in which their requests ended
    fout,       \* the value fetch_all_resorts returned, None before
    fnws,       \* what the overlay lookups of the call met, None before
    \* --- run_validation, one call (the validator specification)
    val_in,     \* the arguments of the call
    val_out,    \* the (quality, flags) it returned, None before
    \* --- score_temperature, one call (the temperature specification)
    temp_in,    \* the argument of the call
    temp_out,   \* the score it returned, None before
    \* --- compute_score, two successive calls (the scorer specification)
    score_in,   \* the arguments of the two calls
    score_out,  \* the ScoreResults returned so far
    \* --- a station network's depth fetch, one call (the station specification)
    stn_in,     \* the network, the slugs asked for, the response of the network
    stn_out,    \* the slug -> reading dictionary it returned, None before
    \* --- the database
    overrides,  \* resort_depth_overrides rows
    snapshots,  \* weather_snapshots rows
    forecasts,  \* forecast_snapshots rows
    scores,     \* resort_scores rows
    \* --- the world
    day,        \* the calendar day, date.today()
    clock,      \* datetime.now(), in fetches begun: it ticks when a run fetches
    \* --- the executions of run_pipeline
    pc,         \* per execution: where it stands
    run,        \* per execution: its local variables
    \* --- bookkeeping of the model
    started,    \* executions of run_pipeline begun so far
    ops,        \* operator requests served so far
    expired,    \* overrides a run flipped to inactive, with the time of the flip
    first_db,   \* a re-run: what the sources answered and what the first run left
    cron_day    \* the last day the daily schedule fired

fetchVars == <<fpc, tries, waits, bst, fitems, forder, fout, fnws>>
valVars == <<val_in, val_out>>
tempVars == <<temp_in, temp_out>>
scoreVars == <<score_in, score_out>>
stationVars == <<stn_in, stn_out>>
dbVars == <<overrides, snapshots, forecasts, scores>>
runVars == <<day, clock, pc, run, started, ops, expired, first_db, cron_day>>
vars == <<fetchVars, valVars, tempVars, scoreVars, stationVars, dbVars, runVars>>

\* Each specification exercises one part of the program; the variables of the
\* other parts stay as they start.
FetchFrame == UNCHANGED <<valVars, tempVars, scoreVars, stationVars, dbVars, runVars>>
ValFrame == UNCHANGED <<fetchVars, tempVars, scoreVars, stationVars, dbVars, runVars>>
MainFrame == UNCHANGED <<fetchVars, valVars, tempVars, scoreVars, stationVars>>
TempFrame == UNCHANGED <<fetchVars, valVars, scoreVars, stationVars, dbVars, runVars>>
ComputeFrame == UNCHANGED <<fetchVars, valVars, tempVars, stationVars, dbVars, runVars>>
StationFrame == UNCHANGED <<fetchVars, valVars, tempVars, scoreVars, dbVars, runVars>>

FetchIdle ==
    /\ fpc = "idle" /\ tries = <<>> /\ waits = <<>> /\ bst = <<>>
    /\ fitems = <<>> /\ forder = <<>> /\ fout = <<>> /\ fnws = <<>>

ValIdle == val_in = <<>> /\ val_out = <<>>

TempIdle == temp_in = <<>> /\ temp_out = <<>>

ComputeIdle == score_in = <<>> /\ score_out = <<>>

StationIdle == stn_in = <<>> /\ stn_out = <<>>

MainIdle ==
    /\ overrides = {} /\ snapshots = {} /\ forecasts = {} /\ scores = {}
    /\ day = 0 /\ clock = 0 /\ pc = <<>> /\ run = <<>>
    /\ started = 0 /\ ops = 0 /\ expired = {} /\ first_db = <<>> /\ cron_day = 0

\* ------------------------------------------------------------------ bounds
\* Resorts in the resorts table of the pipeline specifications.
NumResorts == 2
\* Resorts handed to fetch_all_resorts in the fetcher specification.
NumFetch == 3
\* PIPELINE_BATCH_SIZE (50 in config.py), scaled to the resort counts above.
BatchSize == 2
\* Hourly samples in the trailing "24 h" and "72 h" windows (24 and 72 in
\* the code), scaled to the short hourly series of the modelled responses.
Hours24 == 1
Hours72 == 3
\* Executions of run_pipeline begun, operator requests served, calendar days.
MaxRuns == 2
MaxOps == 2
MaxSets == 1
MaxOverlapRuns == 3
MaxReruns == 2
MaxRequestRuns == 2
MaxRequests == 3
MaxConcurrentRuns == 2
RankResorts == 3
AlertResorts == 21
MaxOffset == 15
MaxCold == 400
MaxFactor == 4
StationResorts == 4
MaxTemp == 100
MaxDay == 2
\* The month of the modelled days.
RunMonth == 3

\* ------------------------------------------------------- program constants
HTTP_RETRIES == 3
HTTP_BACKOFF_FACTOR == 1

\* ----------------------------------------------------------------- helpers
None == <<>>
Some(x) == <<x>>
IsNone(o) == o = <<>>
Val(o) == o[1]

Min(a, b) == IF a <= b THEN a ELSE b
Max(a, b) == IF a >= b THEN a ELSE b

RECURSIVE Pow2(_)
Pow2(n) == IF n <= 0 THEN 1 ELSE 2 * Pow2(n - 1)

\* Python's s[-n:]
LastN(s, n) == SubSeq(s, Max(1, Len(s) - n + 1), Len(s))

\* The present values of a sequence of optional values, in order.
RECURSIVE Present(_)
Present(s) ==
    IF s = <<>> THEN <<>>
    ELSE IF IsNone(Head(s)) THEN Present(Tail(s))
    ELSE <<Val(Head(s))>> \o Present(Tail(s))

RECURSIVE SeqSum(_)
SeqSum(s) == IF s = <<>> THEN 0 ELSE Head(s) + SeqSum(Tail(s))

RECURSIVE SeqMax(_)
SeqMax(s) == IF Len(s) = 1 THEN s[1] ELSE Max(Head(s), SeqMax(Tail(s)))

\* for v in reversed(series): if v is not None: take it
LatestNonNull(series) ==
    LET p == Present(series) IN IF p = <<>> THEN None ELSE Some(p[Len(p)])

\* Python round(): n/d to the nearest integer, ties to even (d > 0).
RoundHalfEven(n, d) ==
    LET q == n \div d
        r == n % d
    IN  IF 2 * r < d THEN q
        ELSE IF 2 * r > d THEN q + 1
        ELSE IF q % 2 = 0 THEN q ELSE q + 1

Range(s) == {s[i] : i \in 1..Len(s)}

\* ======================================================================
\* backend/pipeline/fetcher.py
\* ======================================================================

\* _safe_float / _safe_int: lst[i] or None past the end (i is 0-based).
SafeGet(lst, i) == IF i + 1 <= Len(lst) THEN lst[i + 1] ELSE None

\* confidence = round(max(0.1, 1.0 - (dist_days / 16) * 0.5), 3), thousandths
Confidence(dist_days) == Max(100, RoundHalfEven(1000 * (32 - dist_days), 32))

\* An Open-Meteo response item as the parser reads it.  loc names the
\* coordinates the item answers (the resort they belong to), api_day the
\* first date of daily.time; the hourly series are the tails of the series.
ErrorItem(loc) == [error |-> TRUE, loc |-> loc]

ItemDeep(loc, api_day) ==
    [error |-> FALSE, loc |-> loc, api_day |-> api_day,
     snow_depth |-> <<Some(1500), Some(1600), None>>,
     snowfall |-> <<Some(20), None, Some(100)>>,
     temperature_2m |-> <<Some(-80), Some(-60)>>,
     windspeed_10m |-> <<Some(30), Some(10)>>,
     daily_snowfall |-> <<Some(50), None>>,
     daily_wind_max |-> <<Some(35), Some(20)>>]

ItemThin(loc, api_day) ==
    [error |-> FALSE, loc |-> loc, api_day |-> api_day,
     snow_depth |-> <<Some(400)>>,
     snowfall |-> <<None, Some(0)>>,
     temperature_2m |-> <<Some(40)>>,
     windspeed_10m |-> <<None>>,
     daily_snowfall |-> <<Some(0), Some(200)>>,
     daily_wind_max |-> <<Some(55), None>>]

ItemBare(loc, api_day) ==
    [error |-> FALSE, loc |-> loc, api_day |-> api_day,
     snow_depth |-> <<None, None>>,
     snowfall |-> <<>>,
     temperature_2m |-> <<>>,
     windspeed_10m |-> <<>>,
     daily_snowfall |-> <<>>,
     daily_wind_max |-> <<>>]

ItemChoices(loc, api_day) ==
    {ErrorItem(loc), ItemDeep(loc, api_day), ItemThin(loc, api_day),
     ItemBare(loc, api_day)}

\* The forecast list built from the daily arrays of one item.
ParseForecasts(item) ==
    [i \in 1..Len(item.daily_snowfall) |->
        [forecast_date |-> item.api_day + (i - 1),
         snowfall_cm |-> SafeGet(item.daily_snowfall, i - 1),
         wind_speed_max_kmh |-> SafeGet(item.daily_wind_max, i - 1),
         confidence_score |-> Confidence(i - 1),
         source |-> "open_meteo"]]

\* One ResortWeatherData from one non-error item.
ParseItem(resort_id, item, fetched_at) ==
    LET depth == LatestNonNull(item.snow_depth)
        new_24h == SeqSum(Present(LastN(item.snowfall, Hours24)))
        new_72h == SeqSum(Present(LastN(item.snowfall, Hours72)))
        temps == Present(LastN(item.temperature_2m, Hours72))
        winds == Present(LastN(item.windspeed_10m, Hours24))
    IN  [resort_id |-> resort_id,
         item_loc |-> item.loc,
         fetched_at |-> fetched_at,
         snow_depth_cm |-> depth,
         openmeteo_depth_cm |-> depth,
         new_snow_24h_cm |-> Some(new_24h),
         new_snow_72h_cm |-> Some(new_72h),
         temperature_c |-> LatestNonNull(item.temperature_2m),
         avg_temp_72h_c |->
            IF temps = <<>> THEN None
            ELSE Some(RoundHalfEven(SeqSum(temps) + 1000 * Len(temps), Len(temps)) - 1000),
         wind_speed_kmh |->
            IF winds # <<>> THEN Some(SeqMax(winds))
            ELSE SafeGet(item.daily_wind_max, 0),
         depth_source |-> "open_meteo",
         data_quality |-> "good",
         quality_flags |-> <<>>,
         previous_depth_cm |-> None,
         forecasts |-> ParseForecasts(item)]

\* _parse_batch_response: zip(resort_ids, items), error items skipped.
RECURSIVE ParseBatchFrom(_, _, _, _)
ParseBatchFrom(items, resort_ids, fetched_at, i) ==
    IF i > Min(Len(items), Len(resort_ids)) THEN <<>>
    ELSE IF items[i].error
         THEN ParseBatchFrom(items, resort_ids, fetched_at, i + 1)
         ELSE <<ParseItem(resort_ids[i], items[i], fetched_at)>>
              \o ParseBatchFrom(items, resort_ids, fetched_at, i + 1)

_parse_batch_response(items, resort_ids, fetched_at) ==
    ParseBatchFrom(items, resort_ids, fetched_at, 1)

\* The wait without the doubling.
BackoffWaitFlat(attempt) == HTTP_BACKOFF_FACTOR

\* wait = HTTP_BACKOFF_FACTOR * (2 ** attempt), attempt counted from 0
BackoffWait(attempt) == HTTP_BACKOFF_FACTOR * Pow2(attempt)

\* How one batch request ended.  kind "ok": _fetch_with_retry returned the
\* response (items); "gaveup": it raised RuntimeError after HTTP_RETRIES
\* failed attempts; "raised": another exception left fetch_batch (a body that
\* is no JSON, an item the parser cannot read).
OkOutcome(items) == [kind |-> "ok", items |-> items]
GaveUpOutcome == [kind |-> "gaveup", items |-> <<>>]
RaisedOutcome == [kind |-> "raised", items |-> <<>>]

\* fetch_batch's value as asyncio.gather(return_exceptions=True) hands it on:
\* a list of results, or the exception.
BatchResult(ok, list) == [ok |-> ok, list |-> list]

fetch_batch(resort_ids, outcome, fetched_at) ==
    IF outcome.kind = "ok"
    THEN BatchResult(TRUE, _parse_batch_response(outcome.items, resort_ids, fetched_at))
    ELSE IF outcome.kind = "gaveup" THEN BatchResult(TRUE, <<>>)
    ELSE BatchResult(FALSE, <<>>)

\* batches = [resorts[i : i + PIPELINE_BATCH_SIZE] for i in range(0, n, size)]
NumBatches(n) == (n + BatchSize - 1) \div BatchSize
Batches(resorts) ==
    [b \in 1..NumBatches(Len(resorts)) |->
        SubSeq(resorts, (b - 1) * BatchSize + 1, Min(b * BatchSize, Len(resorts)))]

RECURSIVE Flatten(_)
Flatten(ss) == IF ss = <<>> THEN <<>> ELSE Head(ss) \o Flatten(Tail(ss))

\* The first loop over zip(batches, batch_results): results, and the ids of
\* the batches that ended with an exception.
GatheredResults(batches, batch_results) ==
    Flatten([b \in 1..Len(batches) |->
        IF batch_results[b].ok THEN batch_results[b].list ELSE <<>>])

ExceptionFailed(batches, batch_results) ==
    Flatten([b \in 1..Len(batches) |->
        IF batch_results[b].ok THEN <<>> ELSE batches[b]])

\* The aggregation without its second loop.
MissingFailedDropped(batches, batch_results, successful_ids) == <<>>

\* The second loop: resorts of a non-exception batch not in successful_ids.
MissingFailed(batches, batch_results, successful_ids) ==
    Flatten([b \in 1..Len(batches) |->
        IF batch_results[b].ok
        THEN SelectSeq(batches[b], LAMBDA id : id \notin successful_ids)
        ELSE <<>>])

\* The NWS overlay of one reading: daily_snow is the overlay of the resort,
\* a function from dates to snowfall, or None when its fetch failed.
ApplyOverlay(weather, daily_snow) ==
    IF IsNone(daily_snow) THEN weather
    ELSE [weather EXCEPT !.forecasts =
            [i \in 1..Len(weather.forecasts) |->
                LET fc == weather.forecasts[i] IN
                IF fc.forecast_date \in DOMAIN Val(daily_snow)
                THEN [fc EXCEPT !.snowfall_cm = Some(Val(daily_snow)[fc.forecast_date]),
                                !.source = "nws_hrrr"]
                ELSE fc]]

\* fetch_all_resorts.  resorts is the list of resort rows (records with id
\* and country), outcomes[b] how the request of batch b ended, nws[id] the
\* overlay fetched for resort id (None: its fetch failed), nws_ok FALSE when
\* fetch_nws_snowfall_overlays itself raised.
fetch_all_resorts(resorts, outcomes, fetched_at, nws, nws_ok) ==
    LET batches == Batches(resorts)
        ids(b) == [i \in 1..Len(batches[b]) |-> batches[b][i].id]
        idBatches == [b \in 1..Len(batches) |-> ids(b)]
        batch_results == [b \in 1..Len(batches) |->
                             fetch_batch(ids(b), outcomes[b], fetched_at)]
        results == GatheredResults(idBatches, batch_results)
        successful_ids == {results[i].resort_id : i \in 1..Len(results)}
        failed_ids == ExceptionFailed(idBatches, batch_results)
                      \o MissingFailed(idBatches, batch_results, successful_ids)
        us_ids == {resorts[i].id : i \in {j \in 1..Len(resorts) :
                        resorts[j].country = "US" /\ resorts[j].id \in successful_ids}}
        overlaid == [i \in 1..Len(results) |->
                        IF nws_ok /\ results[i].resort_id \in us_ids
                        THEN ApplyOverlay(results[i], nws[results[i].resort_id])
                        ELSE results[i]]
    IN  [results |-> overlaid, failed_ids |-> failed_ids]

\* ======================================================================
\* backend/pipeline/validator.py
\* ======================================================================
Pass == [ok |-> TRUE, reason |-> ""]
Fail(reason) == [ok |-> FALSE, reason |-> reason]

\* max_depth_map = [(1500, 250), (2000, 350), (2500, 450), (3000, 550), (9999, 700)]
MaxDepthMap == <<<<1500, 2500>>, <<2000, 3500>>, <<2500, 4500>>, <<3000, 5500>>, <<9999, 7000>>>>

\* for threshold, max_cm in max_depth_map: the first band above the elevation
RECURSIVE ElevationCeiling(_, _, _)
ElevationCeiling(elevation_m, depth_cm, i) ==
    IF i > Len(MaxDepthMap) THEN Pass
    ELSE IF elevation_m < MaxDepthMap[i][1]
         THEN IF depth_cm > MaxDepthMap[i][2]
              THEN Fail("depth_exceeds_elevation_maximum")
              ELSE Pass
         ELSE ElevationCeiling(elevation_m, depth_cm, i + 1)

validate_depth_seasonal(latitude, elevation_m, depth_cm, month) ==
    IF IsNone(depth_cm) \/ Val(depth_cm) <= 0 THEN Pass
    ELSE LET is_northern == (IF IsNone(latitude) THEN 0 ELSE Val(latitude)) > 0
             off_season == IF is_northern THEN 5..10 ELSE {11, 12} \cup 1..4
         IN  IF month \in off_season /\ Val(depth_cm) > 500
             THEN Fail("depth_implausible_offseason")
             ELSE IF ~IsNone(elevation_m)
                  THEN ElevationCeiling(Val(elevation_m), Val(depth_cm), 1)
                  ELSE Pass

\* snowfall < change * 0.5 is 2 * snowfall < change
validate_depth_change(previous_depth_cm, current_depth_cm, snowfall_24h_cm) ==
    IF IsNone(previous_depth_cm) \/ IsNone(current_depth_cm) THEN Pass
    ELSE LET change == Val(current_depth_cm) - Val(previous_depth_cm)
             snowfall == IF IsNone(snowfall_24h_cm) THEN 0 ELSE Val(snowfall_24h_cm)
         IN  IF change > 300 /\ 2 * snowfall < change
             THEN Fail("depth_gain_unexplained_by_snowfall")
             ELSE IF change < -600 THEN Fail("depth_loss_implausibly_large")
             ELSE Pass

\* The depths are doubles holding a number of tenths of a cm, and max / min
\* is a double division.  For max = 3 * min in tenths the two doubles are
\* not in the ratio 3 unless both are exact, and the quotient rounds to 3.0
\* or to the next double above it.  TenthsAboveThree lists the min, in
\* tenths up to MaxTabulated, for which (3 * min / 10) / (min / 10) gives
\* 3.0000000000000004; a whole number of cm divides exactly.
MaxTabulated == 120
TenthsAboveThree ==
    {7, 14, 19, 23, 28, 33, 38, 41, 46, 51, 56, 61, 66, 71, 76, 82, 87, 92, 97,
     102, 107, 112, 117}

\* max / min > 3.0 evaluated on exact fractions.
RatioAboveThreeExact(hi, lo) == hi > 3 * lo

\* ratio = max / min; ratio > 3.0, as the double division decides it.  Off
\* the pairs with max = 3 * min the rounding does not change the comparison.
RatioAboveThree(hi, lo) ==
    \/ hi > 3 * lo
    \/ hi = 3 * lo /\ lo % 10 # 0 /\ lo <= MaxTabulated /\ lo \in TenthsAboveThree

\* For a negative min the quotient is below 3.
validate_cross_source(station_depth_cm, openmeteo_depth_cm) ==
    IF IsNone(station_depth_cm) \/ IsNone(openmeteo_depth_cm) THEN Pass
    ELSE IF Val(station_depth_cm) = 0 \/ Val(openmeteo_depth_cm) = 0 THEN Pass
    ELSE LET hi == Max(Val(station_depth_cm), Val(openmeteo_depth_cm))
             lo == Min(Val(station_depth_cm), Val(openmeteo_depth_cm))
         IN  IF lo > 0 /\ RatioAboveThree(hi, lo)
             THEN Fail("cross_source_variance_ratio")
             ELSE Pass

validate_temp_depth_consistency(depth_cm, avg_temp_c) ==
    IF IsNone(depth_cm) \/ IsNone(avg_temp_c) THEN Pass
    ELSE IF Val(avg_temp_c) > 30 /\ Val(depth_cm) > 1500
         THEN Fail("high_depth_inconsistent_with_warm_temps")
         ELSE Pass

\* flags = [reason for ok, reason in validation_results if not ok and reason]
QualityFlags(validation_results) ==
    LET failed == SelectSeq(validation_results, LAMBDA v : ~v.ok /\ v.reason # "")
    IN  [i \in 1..Len(failed) |-> failed[i].reason]

\* The rating with the provenance left out of the n = 0 case.
score_data_quality_NoProvenance(validation_results, depth_source) ==
    LET flags == QualityFlags(validation_results)
        n == Len(flags)
    IN  [quality |-> IF n = 0 THEN "good" ELSE IF n = 1 THEN "suspect" ELSE "unreliable",
         flags |-> flags]

\* score_data_quality: the flags and the level they and the provenance give.
score_data_quality(validation_results, depth_source) ==
    LET flags == QualityFlags(validation_results)
        n == Len(flags)
    IN  [quality |->
            IF n = 0
            THEN IF depth_source = "synoptic_station" THEN "verified" ELSE "good"
            ELSE IF n = 1 THEN "suspect"
            ELSE "unreliable",
         flags |-> flags]

\* The four rule results of run_validation, in the order of the code.
ValidationResults(resort, depth_cm, openmeteo_depth_cm, previous_depth_cm, snowfall_24h_cm, avg_temp_c, depth_source, month) ==
    <<validate_depth_seasonal(resort.latitude, resort.elevation_summit_m, depth_cm, month),
      validate_depth_change(previous_depth_cm, depth_cm, snowfall_24h_cm),
      validate_cross_source(
          IF depth_source = "synoptic_station" THEN depth_cm ELSE None,
          IF depth_source = "synoptic_station" THEN openmeteo_depth_cm ELSE None),
      validate_temp_depth_consistency(depth_cm, avg_temp_c)>>

run_validation(resort, depth_cm, openmeteo_depth_cm, previous_depth_cm, snowfall_24h_cm, avg_temp_c, depth_source, month) ==
    score_data_quality(
        ValidationResults(resort, depth_cm, openmeteo_depth_cm, previous_depth_cm,
                          snowfall_24h_cm, avg_temp_c, depth_source, month),
        depth_source)

\* ======================================================================
\* pipeline/scorer.py.  Scores are tenths of a point (100.0 = 1000); the
\* float arithmetic of the code is done here on exact fractions, rounded
\* where the code rounds.
\* ======================================================================
\* DEFAULT_WEIGHTS, in hundredths
DEFAULT_WEIGHTS ==
    [base_depth |-> 25, fresh_snow |-> 35, temperature |-> 20, wind |-> 10, forecast |-> 10]

\* HORIZON_MIX: (current_weight, forecast_weight), in hundredths
SCORE_HORIZONS == <<0, 3, 7, 14>>
HORIZON_MIX(h) ==
    IF h = 0 THEN <<100, 0>>
    ELSE IF h = 3 THEN <<60, 40>>
    ELSE IF h = 7 THEN <<30, 70>>
    ELSE IF h = 14 THEN <<10, 90>>
    ELSE <<100, 0>>

score_base_depth(snow_depth_cm, historical_avg_cm, elevation_m) ==
    IF IsNone(snow_depth_cm) THEN 0
    ELSE LET avg ==
                 IF IsNone(historical_avg_cm) \/ Val(historical_avg_cm) <= 0
                 THEN IF IsNone(elevation_m) THEN 1000
                      ELSE IF Val(elevation_m) < 1500 THEN 600
                      ELSE IF Val(elevation_m) < 2500 THEN 1200
                      ELSE 1800
                 ELSE Val(historical_avg_cm)
         IN  Min(1000, RoundHalfEven(Val(snow_depth_cm) * 1000, avg))

\* Points of score_fresh_snow are counted in 1/160000 of a point:
\* min(30, snowfall_cm * 2) * confidence * (1 - distance_days / 16 * 0.5)
\* is min(150, snowfall_mm) * confidence_thousandths * (32 - distance_days).
FreshDenominator == 160000

RECURSIVE ForecastPoints(_)
ForecastPoints(days) ==
    IF days = <<>> THEN 0
    ELSE LET d == Head(days) IN
         (IF IsNone(d.snowfall_cm) THEN 0
          ELSE Min(150, Val(d.snowfall_cm)) * d.confidence * (32 - d.distance_days))
         + ForecastPoints(Tail(days))

score_fresh_snow(new_snow_72h_cm, forecast_days) ==
    LET recent_pts == IF IsNone(new_snow_72h_cm) THEN 0
                      ELSE Min(40 * FreshDenominator, 24000 * Val(new_snow_72h_cm))
        forecast_pts == Min(60 * FreshDenominator, ForecastPoints(forecast_days))
    IN  Min(1000, RoundHalfEven(10 * (recent_pts + forecast_pts), FreshDenominator))

\* The bands closed at their colder end.
ScoreTemperatureColdEndClosed(temperature_c) ==
    IF IsNone(temperature_c) THEN 500
    ELSE IF Val(temperature_c) > 20 THEN 0
    ELSE IF Val(temperature_c) >= 0 THEN 200
    ELSE IF Val(temperature_c) > -50 THEN 600
    ELSE IF Val(temperature_c) >= -150 THEN 1000
    ELSE IF Val(temperature_c) >= -250 THEN 800
    ELSE 500

score_temperature(temperature_c) ==
    IF IsNone(temperature_c) THEN 500
    ELSE IF Val(temperature_c) > 20 THEN 0
    ELSE IF Val(temperature_c) > 0 THEN 200
    ELSE IF Val(temperature_c) > -50 THEN 600
    ELSE IF Val(temperature_c) > -150 THEN 1000
    ELSE IF Val(temperature_c) > -250 THEN 800
    ELSE 500

score_wind(wind_speed_kmh) ==
    IF IsNone(wind_speed_kmh) THEN 800
    ELSE IF Val(wind_speed_kmh) < 20 THEN 1000
    ELSE IF Val(wind_speed_kmh) < 40 THEN 800
    ELSE IF Val(wind_speed_kmh) < 60 THEN 500
    ELSE IF Val(wind_speed_kmh) < 80 THEN 200
    ELSE 0

score_forecast_confidence(forecast_days) ==
    IF forecast_days = <<>> THEN 1000
    ELSE RoundHalfEven(SeqSum([i \in 1..Len(forecast_days) |-> forecast_days[i].confidence]),
                       Len(forecast_days))

_SPRING_MONTHS == {3, 4, 5}

\* The adjustments without the cap at 100.
AdjustmentsUncapped(temp_score, base_depth_score, meta, current_month) ==
    LET spring == current_month \in {3, 4, 5}
        north_facing == ~IsNone(meta.aspect) /\ Val(meta.aspect) \in {"N", "NE", "NW"}
        south_facing == ~IsNone(meta.aspect) /\ Val(meta.aspect) \in {"S", "SE", "SW"}
        t == IF spring /\ north_facing THEN RoundHalfEven(temp_score * 108, 100)
             ELSE IF spring /\ south_facing THEN RoundHalfEven(temp_score * 95, 100)
             ELSE temp_score
        summit == meta.elevation_summit_m
        b == IF ~IsNone(summit) /\ Val(summit) > 3000
             THEN RoundHalfEven(base_depth_score * 110, 100)
             ELSE IF ~IsNone(summit) /\ Val(summit) < 2000 /\ spring
             THEN RoundHalfEven(base_depth_score * 90, 100)
             ELSE base_depth_score
    IN  <<t, b>>

\* Returns <<temp_score, base_depth_score>>.
apply_aspect_elevation_adjustments(temp_score, base_depth_score, meta, current_month) ==
    LET spring == current_month \in _SPRING_MONTHS
        north_facing == ~IsNone(meta.aspect) /\ Val(meta.aspect) \in {"N", "NE", "NW"}
        south_facing == ~IsNone(meta.aspect) /\ Val(meta.aspect) \in {"S", "SE", "SW"}
        t == IF spring /\ north_facing THEN Min(1000, RoundHalfEven(temp_score * 108, 100))
             ELSE IF spring /\ south_facing THEN Min(1000, RoundHalfEven(temp_score * 95, 100))
             ELSE temp_score
        summit == meta.elevation_summit_m
        b == IF ~IsNone(summit) /\ Val(summit) > 3000
             THEN Min(1000, RoundHalfEven(base_depth_score * 110, 100))
             ELSE IF ~IsNone(summit) /\ Val(summit) < 2000 /\ spring
             THEN Min(1000, RoundHalfEven(base_depth_score * 90, 100))
             ELSE base_depth_score
    IN  <<t, b>>

\* current has snow_depth_cm, new_snow_72h_cm, temperature_c, wind_speed_kmh;
\* forecast_days is a sequence of [distance_days, snowfall_cm, confidence].
compute_score(current, forecast_days, meta, horizon_days, w, current_month) ==
    LET horizon_forecasts == SelectSeq(forecast_days, LAMBDA d : d.distance_days <= horizon_days)
        s_base0 == score_base_depth(current.snow_depth_cm, None, meta.elevation_summit_m)
        s_fresh == score_fresh_snow(current.new_snow_72h_cm, horizon_forecasts)
        s_temp0 == score_temperature(current.temperature_c)
        s_wind == score_wind(current.wind_speed_kmh)
        s_forecast == score_forecast_confidence(horizon_forecasts)
        adj == apply_aspect_elevation_adjustments(s_temp0, s_base0, meta, current_month)
        s_temp == adj[1]
        s_base == adj[2]
        mix == HORIZON_MIX(horizon_days)
        weighted == w.base_depth * s_base + w.fresh_snow * s_fresh
                    + w.temperature * s_temp + w.wind * s_wind + w.forecast * s_forecast
        \* current_w + forecast_w * (s_forecast / 100), in 1/10000; every
        \* forecast_w is a multiple of 10 percent
        damping == 100 * mix[1] + (mix[2] \div 10) * s_forecast
        total == RoundHalfEven(weighted * damping, 1000000)
    IN  [score_total |-> Min(1000, Max(0, total)),
         score_base_depth |-> s_base,
         score_fresh_snow |-> s_fresh,
         score_temperature |-> s_temp,
         score_wind |-> s_wind,
         score_forecast |-> s_forecast]

\* ======================================================================
\* The fetcher specification: one call of fetch_all_resorts on NumFetch
\* resorts, every batch request retried by _fetch_with_retry.
\* ======================================================================
FetchInput == [i \in 1..NumFetch |-> [id |-> i, country |-> IF i = 1 THEN "US" ELSE "FR"]]
FetchBatches == Batches(FetchInput)
FetchBatchIds(b) == [i \in 1..Len(FetchBatches[b]) |-> FetchBatches[b][i].id]
FetchDay == 1
FetchedAt == 1

\* Every response the API can give for a batch: one item per coordinate, in
\* the order of the request.
RECURSIVE Responses(_, _)
Responses(ids, api_day) ==
    IF ids = <<>> THEN {<<>>}
    ELSE {<<it>> \o rest : it \in ItemChoices(Head(ids), api_day),
                           rest \in Responses(Tail(ids), api_day)}

\* The overlays the NWS fetch can deliver for one resort.
\* What the two lookups of one resort's overlay meet: the points lookup and
\* the grid lookup succeed or fail, and the grid data hold no snowfall values
\* or 12 cm for the day of the call.
NwsLookups(api_day) ==
    [points_ok : BOOLEAN, grid_ok : BOOLEAN, values : {<<>>, [d \in {api_day} |-> 120]}]

\* The overlay without its failure exits: the values whatever the lookups met.
FetchNwsIgnoringFailures(lookup) ==
    IF lookup.values = <<>> THEN None ELSE Some(lookup.values)

\* _fetch_nws_daily_snowfall: {date: snowfall_cm}, or None on any failure.
_fetch_nws_daily_snowfall(lookup) ==
    IF ~lookup.points_ok THEN None
    ELSE IF ~lookup.grid_ok THEN None
    ELSE IF lookup.values = <<>> THEN None
    ELSE Some(lookup.values)

OverlayChoices(api_day) == {_fetch_nws_daily_snowfall(l) : l \in NwsLookups(api_day)}

FetchInit ==
    /\ fpc = "fetching"
    /\ tries = [b \in 1..Len(FetchBatches) |-> <<>>]
    /\ waits = [b \in 1..Len(FetchBatches) |-> <<>>]
    /\ bst = [b \in 1..Len(FetchBatches) |-> "ready"]
    /\ fitems = [b \in 1..Len(FetchBatches) |-> <<>>]
    /\ forder = <<>>
    /\ fout = None /\ fnws = None

\* One pass of the body of "for attempt in range(HTTP_RETRIES)".
AttemptOk(b) ==
    /\ fpc = "fetching" /\ bst[b] = "ready"
    /\ \E items \in Responses(FetchBatchIds(b), FetchDay) :
          fitems' = [fitems EXCEPT ![b] = items]
    /\ tries' = [tries EXCEPT ![b] = Append(@, "ok")]
    /\ bst' = [bst EXCEPT ![b] = "ok"]
    /\ forder' = Append(forder, b)
    /\ UNCHANGED <<fpc, waits, fout, fnws>>
    /\ FetchFrame

\* httpx.HTTPError or httpx.TimeoutException: the wait is computed and slept.
AttemptFail(b) ==
    /\ fpc = "fetching" /\ bst[b] = "ready"
    /\ tries' = [tries EXCEPT ![b] = Append(@, "fail")]
    /\ waits' = [waits EXCEPT ![b] = Append(@, BackoffWait(Len(tries[b])))]
    /\ bst' = [bst EXCEPT ![b] = "sleeping"]
    /\ UNCHANGED <<fpc, fitems, forder, fout, fnws>>
    /\ FetchFrame

\* Any other exception is not caught by the retry loop, nor by fetch_batch.
AttemptRaise(b) ==
    /\ fpc = "fetching" /\ bst[b] = "ready"
    /\ tries' = [tries EXCEPT ![b] = Append(@, "raise")]
    /\ bst' = [bst EXCEPT ![b] = "raised"]
    /\ forder' = Append(forder, b)
    /\ UNCHANGED <<fpc, waits, fitems, fout, fnws>>
    /\ FetchFrame

\* asyncio.sleep(wait) returns: the next pass, or the RuntimeError after the
\* loop, which fetch_batch turns into [].
\* A retry loop without its bound: after every wait another attempt.
RetryWithoutBound(st, n) == "ready"

RetryOrGiveUp(st, n) == IF n < HTTP_RETRIES THEN "ready" ELSE "gaveup"

Wake(b) ==
    /\ fpc = "fetching" /\ bst[b] = "sleeping"
    /\ bst' = [bst EXCEPT ![b] = RetryOrGiveUp(bst[b], Len(tries[b]))]
    /\ forder' = IF bst'[b] = "ready" THEN forder ELSE Append(forder, b)
    /\ UNCHANGED <<fpc, tries, waits, fitems, fout, fnws>>
    /\ FetchFrame

FetchOutcome(b) ==
    IF bst[b] = "ok" THEN OkOutcome(fitems[b])
    ELSE IF bst[b] = "gaveup" THEN GaveUpOutcome ELSE RaisedOutcome

\* The outcomes handed on in the order in which the requests ended.
GatherAsCompleted(order, outcomes) == [k \in 1..Len(order) |-> outcomes[order[k]]]

\* asyncio.gather(*tasks, return_exceptions=True): the outcomes in the order
\* of the tasks, whatever the order in which they ended.
gather(order, outcomes) == outcomes

\* asyncio.gather has every batch's outcome: aggregation and the overlay.
Aggregate ==
    /\ fpc = "fetching"
    /\ \A b \in 1..Len(FetchBatches) : bst[b] \in {"ok", "gaveup", "raised"}
    /\ \E lookup \in NwsLookups(FetchDay), nws_ok \in BOOLEAN :
          /\ fout' = Some(fetch_all_resorts(
                        FetchInput,
                        gather(forder, [b \in 1..Len(FetchBatches) |-> FetchOutcome(b)]),
                        FetchedAt,
                        [id \in 1..NumFetch |-> _fetch_nws_daily_snowfall(lookup)],
                        nws_ok))
          /\ fnws' = Some([lookup |-> lookup, nws_ok |-> nws_ok])
    /\ fpc' = "done"
    /\ UNCHANGED <<tries, waits, bst, fitems, forder>>
    /\ FetchFrame

FetchNext ==
    \/ \E b \in 1..Len(FetchBatches) : AttemptOk(b)
    \/ \E b \in 1..Len(FetchBatches) : AttemptFail(b)
    \/ \E b \in 1..Len(FetchBatches) : AttemptRaise(b)
    \/ \E b \in 1..Len(FetchBatches) : Wake(b)
    \/ Aggregate

\* ---------------------------------------------------------------- claims
\* How often a resort id occurs among the results, and in failed_ids.
CountResults(results, id) == Cardinality({k \in 1..Len(results) : results[k].resort_id = id})
CountFailed(failed_ids, id) == Cardinality({k \in 1..Len(failed_ids) : failed_ids[k] = id})

C9_BoundedRetryWithBackoff ==
    \A b \in 1..Len(FetchBatches) :
        /\ Len(tries[b]) <= 3
        /\ \A k \in 1..(Len(tries[b]) - 1) :
              /\ tries[b][k] = "fail"
              /\ k <= Len(waits[b])
              /\ waits[b][k] = Pow2(k - 1)
        /\ bst[b] = "gaveup" =>
              /\ Len(tries[b]) = 3
              /\ \A k \in 1..3 : tries[b][k] = "fail"
        /\ (fpc = "done" /\ bst[b] = "gaveup") =>
              /\ \A i \in 1..Len(FetchBatchIds(b)) :
                    FetchBatchIds(b)[i] \in Range(Val(fout).failed_ids)
              /\ \A c \in 1..Len(FetchBatches) : bst[c] = "ok" =>
                    \A i \in 1..Len(fitems[c]) : ~fitems[c][i].error =>
                        /\ FetchBatchIds(c)[i] \notin Range(Val(fout).failed_ids)
                        /\ \E n \in 1..Len(Val(fout).results) :
                              Val(fout).results[n].resort_id = FetchBatchIds(c)[i]

\* A call in which one batch gave up after three attempts and another
\* succeeded on its second attempt.
C9_Witness ==
    /\ fpc = "done"
    /\ \E b \in 1..Len(FetchBatches) : bst[b] = "gaveup" /\ waits[b] = <<1, 2, 4>>
    /\ \E b \in 1..Len(FetchBatches) : bst[b] = "ok" /\ tries[b] = <<"fail", "ok">>

\* ======================================================================
\* The validator specification: one call of run_validation on arguments
\* drawn from ValInputs.
\* ======================================================================
DepthSources == {"open_meteo", "synoptic_station", "manual_override"}

ValInputs ==
    [latitude : {Some(45), Some(-45)},
     elevation_summit_m : {None, Some(1400), Some(3200)},
     depth_cm : {None, Some(0), Some(306), Some(400), Some(1200), Some(1600), Some(3600)},
     openmeteo_depth_cm : {None, Some(0), Some(102), Some(400), Some(1500)},
     previous_depth_cm : {None, Some(1000), Some(2300)},
     snowfall_24h_cm : {None, Some(0), Some(1500)},
     avg_temp_c : {None, Some(-50), Some(40)},
     depth_source : DepthSources,
     month : {1, 7}]

ValInit ==
    /\ val_in \in ValInputs
    /\ val_out = None

ValResultsOf(in) ==
    ValidationResults([latitude |-> in.latitude,
                       elevation_summit_m |-> in.elevation_summit_m],
                      in.depth_cm, in.openmeteo_depth_cm, in.previous_depth_cm,
                      in.snowfall_24h_cm, in.avg_temp_c, in.depth_source, in.month)

Validate ==
    /\ val_out = None
    /\ val_out' = Some(run_validation(
                      [latitude |-> val_in.latitude,
                       elevation_summit_m |-> val_in.elevation_summit_m],
                      val_in.depth_cm, val_in.openmeteo_depth_cm,
                      val_in.previous_depth_cm, val_in.snowfall_24h_cm,
                      val_in.avg_temp_c, val_in.depth_source, val_in.month))
    /\ UNCHANGED val_in
    /\ ValFrame

\* The number of rules of a call that returned is_valid = False.
FailedRules(in) == Cardinality({i \in 1..4 : ~ValResultsOf(in)[i].ok})

\* C4: the quality level is verified for no failed rule and station
\* provenance, good for no failed rule and any other provenance, suspect for
\* exactly one failed rule, unreliable for two or more; never stale.
C4_QualityLevelExact ==
    ~IsNone(val_out) =>
        LET n == FailedRules(val_in)
            q == Val(val_out).quality
        IN  /\ q # "stale"
            /\ q = "verified" <=> (n = 0 /\ val_in.depth_source = "synoptic_station")
            /\ q = "good" <=> (n = 0 /\ val_in.depth_source # "synoptic_station")
            /\ q = "suspect" <=> n = 1
            /\ q = "unreliable" <=> n >= 2
            /\ Len(Val(val_out).flags) = n

\* A call on a station reading that fails all four rules, rated unreliable.
C4_Witness ==
    /\ ~IsNone(val_out)
    /\ FailedRules(val_in) = 4
    /\ Val(val_out).quality = "unreliable"

\* A call on a station reading with no failed rule, rated verified.
C4_WitnessVerified ==
    /\ ~IsNone(val_out)
    /\ FailedRules(val_in) = 0
    /\ val_in.depth_source = "synoptic_station"
    /\ ~IsNone(val_in.depth_cm) /\ Val(val_in.depth_cm) > 0
    /\ Val(val_out).quality = "verified"

\* ======================================================================
\* pipeline/station_fetcher.py
\* ======================================================================
\* The slug of a resort row.
Slug(id) == 100 + id

\* data/resort_station_map.json: the station of a slug, None without one.
StationMap(slug) == IF slug % 2 = 1 THEN Some(1) ELSE None

\* _snow_depth_to_cm for the unit Synoptic uses with units=metric ("Meters"):
\* round(value * 100, 1).  A raw value is a number of 1/10000 m.
_snow_depth_to_cm(value) == RoundHalfEven(value, 10)

\* The reading _parse_timeseries_response leaves for a slug: that of the last
\* station of the response that is the slug's station and has a non-null
\* depth.  A response is a sequence of [stid, depths].
RECURSIVE StationReadingFor(_, _)
StationReadingFor(stations, stid) ==
    IF stations = <<>> THEN None
    ELSE LET st == stations[Len(stations)]
             rest == SubSeq(stations, 1, Len(stations) - 1)
         IN  IF st.stid = stid /\ ~IsNone(LatestNonNull(st.depths))
             THEN Some([snow_depth_cm |-> _snow_depth_to_cm(Val(LatestNonNull(st.depths))),
                        stid |-> stid])
             ELSE StationReadingFor(rest, stid)

\* fetch_station_depths: slug -> StationReading for the slugs that got one.
\* response is None when the request failed on every attempt or raised.
fetch_station_depths(slugs, response) ==
    IF IsNone(response) THEN <<>>
    ELSE LET mapped == {sl \in Range(slugs) : ~IsNone(StationMap(sl))}
             got == {sl \in mapped :
                        ~IsNone(StationReadingFor(Val(response), Val(StationMap(sl))))}
         IN  [sl \in got |-> Val(StationReadingFor(Val(response), Val(StationMap(sl))))]

StationChoices == {None, Some(<<[stid |-> 1, depths |-> <<Some(9004), None>>]>>)}

\* ======================================================================
\* pipeline/scheduler.py: run_pipeline, and the requests of routers/admin.py
\* ======================================================================
Runs == {"cron", "admin"}

\* The rows of the resorts table.
ResortRow(i) ==
    [id |-> i, slug |-> Slug(i),
     country |-> IF i = 1 THEN "US" ELSE "FR",
     latitude |-> Some(45),
     elevation_summit_m |-> IF i = 1 THEN Some(3200) ELSE Some(1400),
     aspect |-> IF i = 1 THEN Some("N") ELSE Some("S")]
ResortRows == [i \in 1..NumResorts |-> ResortRow(i)]
resort_meta_map(id) == ResortRow(id)

\* What the operator asks for: the resorts that get an override, depth_cm
\* and threshold_cm of set-override.
OverrideResorts == {i \in 1..NumResorts : ~IsNone(StationMap(Slug(i)))}
OverrideDepths == {800}
OverrideThresholds == {0, 100}

\* The local variables of an execution before it has run.
LocalInit ==
    [today |-> 0, started_at |-> 0, resorts |-> <<>>,
     weather |-> <<>>, failed_ids |-> <<>>,
     previous_depths |-> <<>>, station_readings |-> <<>>, station_tries |-> 0,
     active_overrides |-> <<>>, override_updates |-> <<>>,
     alert |-> FALSE, written |-> 0, write_failures |-> 0, snap_fault |-> <<>>,
     scored_at |-> 0, i |-> 0, score_failed |-> {}, score_blocked |-> {},
     session_ok |-> TRUE, deleted_snapshots |-> {}, deleted_forecasts |-> {}]

InProgress(r) == pc[r] # "idle"

\* --------------------------------------------------------------- fetching
\* What the weather API answers in the pipeline specifications: a snowy day
\* with every location answered, or a dry day on which the locations
\* without a station are in error.
SnowyDay(ids, api_day) == [i \in 1..Len(ids) |-> ItemDeep(ids[i], api_day)]
DryDay(ids, api_day) ==
    [i \in 1..Len(ids) |->
        IF ~IsNone(StationMap(Slug(ids[i]))) THEN ItemThin(ids[i], api_day)
        ELSE ErrorItem(ids[i])]
PipelineResponses(ids, api_day) == {SnowyDay(ids, api_day), DryDay(ids, api_day)}

\* Every way the batch requests of one fetch_all_resorts call can end.
OutcomesOfBatch(ids, api_day) ==
    {OkOutcome(items) : items \in PipelineResponses(ids, api_day)}

BatchOutcomeChoices(resorts, api_day) ==
    LET batches == Batches(resorts)
        ids(b) == [i \in 1..Len(batches[b]) |-> batches[b][i].id]
        all == UNION {OutcomesOfBatch(ids(b), api_day) : b \in 1..Len(batches)}
    IN  {f \in [1..Len(batches) -> all] :
            \A b \in 1..Len(batches) : f[b] \in OutcomesOfBatch(ids(b), api_day)}

\* run_pipeline up to the return of fetch_all_resorts, for one of the given
\* ways the batch requests can end.  The resorts table is never empty here,
\* so the early return is not taken.  The daily schedule fires once a day.
\* The regional overlay delivers nothing in the pipeline specifications.
Begin(r, limit, choices) ==
    /\ ~InProgress(r)
    /\ started < limit
    /\ r = "cron" => cron_day < day
    /\ cron_day' = IF r = "cron" THEN day ELSE cron_day
    /\ \E outcomes \in choices :
          LET f == fetch_all_resorts(ResortRows, outcomes, clock,
                                     [id \in 1..NumResorts |-> None], TRUE)
          IN  run' = [run EXCEPT ![r] =
                        [LocalInit EXCEPT !.today = day, !.started_at = clock,
                                          !.resorts = ResortRows,
                                          !.weather = f.results,
                                          !.failed_ids = f.failed_ids]]
    /\ pc' = [pc EXCEPT ![r] = "prev"]
    /\ clock' = clock + 1
    /\ started' = started + 1
    /\ UNCHANGED <<dbVars, day, ops, expired>>
    /\ MainFrame

\* ------------------------------------------- previous depths and stations
\* The depth of the resort's snapshot with the largest fetched_at, when that
\* depth is not null.
PreviousDepths(rows) ==
    LET latest(id) == {s \in rows : /\ s.resort_id = id
                                    /\ \A t \in rows : t.resort_id = id =>
                                          t.fetched_at <= s.fetched_at}
        has == {id \in 1..NumResorts :
                    \E s \in latest(id) : ~IsNone(s.snow_depth_cm)}
    IN  [id \in has |-> Val((CHOOSE s \in latest(id) : ~IsNone(s.snow_depth_cm)).snow_depth_cm)]

\* The station step overwriting the model depth as well.
ApplyStationOverModel(weather, station_readings) ==
    [i \in 1..Len(weather) |->
        LET slug == resort_meta_map(weather[i].resort_id).slug IN
        IF slug \in DOMAIN station_readings
        THEN [weather[i] EXCEPT !.snow_depth_cm = Some(station_readings[slug].snow_depth_cm),
                                !.openmeteo_depth_cm = Some(station_readings[slug].snow_depth_cm),
                                !.depth_source = "synoptic_station"]
        ELSE weather[i]]

\* The station step losing the depth of a resort that has a station in the
\* map but no reading.
ApplyStationNoFallback(weather, station_readings) ==
    [i \in 1..Len(weather) |->
        LET slug == resort_meta_map(weather[i].resort_id).slug IN
        IF slug \in DOMAIN station_readings
        THEN [weather[i] EXCEPT !.snow_depth_cm = Some(station_readings[slug].snow_depth_cm),
                                !.depth_source = "synoptic_station"]
        ELSE IF ~IsNone(StationMap(slug))
        THEN [weather[i] EXCEPT !.snow_depth_cm = None]
        ELSE weather[i]]

\* The station step: a reading replaces the depth and the provenance.
ApplyStation(weather, station_readings) ==
    [i \in 1..Len(weather) |->
        LET slug == resort_meta_map(weather[i].resort_id).slug IN
        IF slug \in DOMAIN station_readings
        THEN [weather[i] EXCEPT !.snow_depth_cm = Some(station_readings[slug].snow_depth_cm),
                                !.depth_source = "synoptic_station"]
        ELSE weather[i]]

ReadPrevious(r, stations) ==
    /\ pc[r] = "prev"
    /\ \E response \in stations :
          LET all_slugs == [i \in 1..NumResorts |-> ResortRows[i].slug]
              station_readings == fetch_station_depths(all_slugs, response)
          IN  run' = [run EXCEPT ![r].previous_depths = PreviousDepths(snapshots),
                                 ![r].station_readings = station_readings,
                                 ![r].station_tries = 0,
                                 ![r].weather = ApplyStation(@, station_readings)]
    /\ pc' = [pc EXCEPT ![r] = "ovread"]
    /\ UNCHANGED <<dbVars, day, clock, started, ops, expired>>
    /\ UNCHANGED cron_day
    /\ MainFrame

\* ------------------------------------------------------- manual overrides
\* float(override.cumulative_new_snow_since_cm or 0) + (weather.new_snow_24h_cm or 0)
NewCumulative(override, weather) ==
    override.cumulative_new_snow_since_cm
    + (IF IsNone(weather.new_snow_24h_cm) THEN 0 ELSE Val(weather.new_snow_24h_cm))

\* The threshold as the operator stored it.
StoredThreshold(override) == override.new_snow_threshold_cm

\* threshold = float(override.new_snow_threshold_cm or 20)
Threshold(override) ==
    IF override.new_snow_threshold_cm = 0 THEN 200 ELSE override.new_snow_threshold_cm

\* if new_cumulative >= threshold
Expires(override, weather) == NewCumulative(override, weather) >= Threshold(override)

\* The override loop with a station reading outranking the override.
ReconcileStationLast(weather, active_overrides) ==
    [i \in 1..Len(weather) |->
        IF weather[i].depth_source = "synoptic_station" THEN weather[i]
        ELSE IF weather[i].resort_id \in DOMAIN active_overrides
                /\ ~Expires(active_overrides[weather[i].resort_id], weather[i])
        THEN [weather[i] EXCEPT
                !.snow_depth_cm = Some(active_overrides[weather[i].resort_id].override_depth_cm),
                !.depth_source = "manual_override"]
        ELSE weather[i]]

\* The loop over weather_results: the readings after it.
Reconcile(weather, active_overrides) ==
    [i \in 1..Len(weather) |->
        IF weather[i].resort_id \in DOMAIN active_overrides
           /\ ~Expires(active_overrides[weather[i].resort_id], weather[i])
        THEN [weather[i] EXCEPT
                !.snow_depth_cm = Some(active_overrides[weather[i].resort_id].override_depth_cm),
                !.depth_source = "manual_override"]
        ELSE weather[i]]

\* The loop over weather_results: override_updates.
RECURSIVE OverrideUpdates(_, _)
OverrideUpdates(weather, active_overrides) ==
    IF weather = <<>> THEN <<>>
    ELSE LET w == Head(weather)
             rest == OverrideUpdates(Tail(weather), active_overrides)
         IN  IF w.resort_id \notin DOMAIN active_overrides THEN rest
             ELSE LET ov == active_overrides[w.resort_id] IN
                  <<[id |-> ov.id, resort_id |-> w.resort_id,
                     is_active |-> ~Expires(ov, w),
                     cumulative |-> NewCumulative(ov, w)]>> \o rest

\* select(ResortDepthOverride).where(is_active == True), keyed by resort id
ActiveOverrides(rows) ==
    [id \in {o.resort_id : o \in {x \in rows : x.is_active}} |->
        CHOOSE o \in rows : o.is_active /\ o.resort_id = id]

ReadOverrides(r) ==
    /\ pc[r] = "ovread"
    /\ LET active == ActiveOverrides(overrides) IN
       run' = [run EXCEPT ![r].active_overrides = active,
                          ![r].override_updates = OverrideUpdates(run[r].weather, active),
                          ![r].weather = Reconcile(@, active)]
    /\ pc' = [pc EXCEPT ![r] = "ovwrite"]
    /\ UNCHANGED <<dbVars, day, clock, started, ops, expired>>
    /\ UNCHANGED cron_day
    /\ MainFrame

\* update(ResortDepthOverride).where(id == u["id"]).values(...), for every u
ApplyUpdates(rows, updates) ==
    {IF \E k \in 1..Len(updates) : updates[k].id = o.id
     THEN LET u == updates[CHOOSE k \in 1..Len(updates) : updates[k].id = o.id] IN
          [o EXCEPT !.cumulative_new_snow_since_cm = u.cumulative, !.is_active = u.is_active]
     ELSE o : o \in rows}

\* The validation loop: data_quality, quality_flags, previous_depth_cm.
ValidateAll(weather, previous_depths, month) ==
    [i \in 1..Len(weather) |->
        LET w == weather[i]
            prev == IF w.resort_id \in DOMAIN previous_depths
                    THEN Some(previous_depths[w.resort_id]) ELSE None
            v == run_validation(resort_meta_map(w.resort_id), w.snow_depth_cm,
                                w.openmeteo_depth_cm, prev, w.new_snow_24h_cm,
                                w.avg_temp_72h_c, w.depth_source, month)
        IN  [w EXCEPT !.previous_depth_cm = prev,
                      !.data_quality = v.quality,
                      !.quality_flags = v.flags]]

\* The alert raised from the threshold on.
FailureAlertFromThreshold(failed_ids, resorts) == 20 * Len(failed_ids) >= Len(resorts)

\* failure_rate = len(failed_ids) / len(resorts); failure_rate > 0.05
FailureAlert(failed_ids, resorts) == 20 * Len(failed_ids) > Len(resorts)

\* The commit of override_updates, then validation and the failure alert.
WriteOverrides(r) ==
    /\ pc[r] = "ovwrite"
    /\ overrides' = ApplyUpdates(overrides, run[r].override_updates)
    /\ expired' = expired \cup
          {[id |-> o.id, at |-> clock] :
              o \in {x \in overrides : x.is_active /\
                        \E k \in 1..Len(run[r].override_updates) :
                            /\ run[r].override_updates[k].id = x.id
                            /\ ~run[r].override_updates[k].is_active}}
    /\ run' = [run EXCEPT
                ![r].weather = ValidateAll(@, run[r].previous_depths, RunMonth),
                ![r].alert = FailureAlert(run[r].failed_ids, run[r].resorts)]
    /\ pc' = [pc EXCEPT ![r] = "snap"]
    /\ UNCHANGED <<snapshots, forecasts, scores, day, clock, started, ops>>
    /\ UNCHANGED cron_day
    /\ MainFrame

\* ------------------------------------------------------ writer.py: writes
SnapshotRow(w, today) ==
    [resort_id |-> w.resort_id, fetched_at |-> w.fetched_at, data_date |-> today,
     snow_depth_cm |-> w.snow_depth_cm, new_snow_24h_cm |-> w.new_snow_24h_cm,
     new_snow_72h_cm |-> w.new_snow_72h_cm, temperature_c |-> w.temperature_c,
     wind_speed_kmh |-> w.wind_speed_kmh, source |-> "open_meteo"]

ForecastRows(w) ==
    {[resort_id |-> w.resort_id, fetched_at |-> w.fetched_at,
      forecast_date |-> w.forecasts[k].forecast_date,
      snowfall_cm |-> w.forecasts[k].snowfall_cm,
      confidence_score |-> w.forecasts[k].confidence_score] : k \in 1..Len(w.forecasts)}

\* The rows after the loop of write_weather_snapshots and its commit, when
\* every statement went through.
SnapshotsAfter(rows, weather, today) ==
    {s \in rows : ~\E i \in 1..Len(weather) :
                      s.resort_id = weather[i].resort_id /\ s.data_date = today}
    \cup {SnapshotRow(weather[i], today) : i \in 1..Len(weather)}

ForecastsAfter(rows, weather) ==
    {f \in rows : ~\E i \in 1..Len(weather) : f.resort_id = weather[i].resort_id}
    \cup UNION {ForecastRows(weather[i]) : i \in 1..Len(weather)}

AfterSnapshots(r, n) == IF n = 0 THEN "rank" ELSE "score"

\* write_weather_snapshots without a database error; scored_at is taken.
WriteSnapshots(r) ==
    /\ pc[r] = "snap"
    /\ snapshots' = SnapshotsAfter(snapshots, run[r].weather, run[r].today)
    /\ forecasts' = ForecastsAfter(forecasts, run[r].weather)
    /\ run' = [run EXCEPT ![r].written = Len(run[r].weather),
                          ![r].scored_at = clock,
                          ![r].i = 1]
    /\ pc' = [pc EXCEPT ![r] = AfterSnapshots(r, Len(run[r].weather))]
    /\ UNCHANGED <<overrides, scores, day, clock, started, ops, expired>>
    /\ UNCHANGED cron_day
    /\ MainFrame

\* write_weather_snapshots as a transaction among concurrent ones (the
\* database's default isolation, read committed): up to the await of the
\* commit.  Each DELETE removes the committed rows it matches; the rows
\* another session has added and not yet committed are not among them.  The
\* added rows wait in the session.
SnapshotStatements(r) ==
    /\ pc[r] = "snap"
    /\ run' = [run EXCEPT
                ![r].deleted_snapshots =
                    {s \in snapshots : \E i \in 1..Len(run[r].weather) :
                        s.resort_id = run[r].weather[i].resort_id /\ s.data_date = run[r].today},
                ![r].deleted_forecasts =
                    {f \in forecasts : \E i \in 1..Len(run[r].weather) :
                        f.resort_id = run[r].weather[i].resort_id}]
    /\ pc' = [pc EXCEPT ![r] = "commit"]
    /\ UNCHANGED <<dbVars, day, clock, started, ops, expired>>
    /\ UNCHANGED cron_day
    /\ MainFrame

\* await session.commit(): the deletions and the added rows of the
\* transaction become the committed state; scored_at is taken.
SnapshotCommit(r) ==
    /\ pc[r] = "commit"
    /\ snapshots' = (snapshots \ run[r].deleted_snapshots)
                        \cup {SnapshotRow(run[r].weather[i], run[r].today) :
                                 i \in 1..Len(run[r].weather)}
    /\ forecasts' = (forecasts \ run[r].deleted_forecasts)
                        \cup UNION {ForecastRows(run[r].weather[i]) :
                                       i \in 1..Len(run[r].weather)}
    /\ run' = [run EXCEPT ![r].written = Len(run[r].weather),
                          ![r].scored_at = clock,
                          ![r].i = 1]
    /\ pc' = [pc EXCEPT ![r] = AfterSnapshots(r, Len(run[r].weather))]
    /\ UNCHANGED <<overrides, scores, day, clock, started, ops, expired>>
    /\ UNCHANGED cron_day
    /\ MainFrame

\* write_weather_snapshots when the pass for resort k raises before its
\* first statement (a value error): the except clause skips that resort, the
\* passes of the others go through and the commit persists them.
WriteSnapshotsSkip(r) ==
    /\ pc[r] = "snap"
    /\ \E k \in 1..Len(run[r].weather) :
          LET others == SelectSeq(run[r].weather,
                                  LAMBDA w : w.resort_id # run[r].weather[k].resort_id)
          IN  /\ snapshots' = SnapshotsAfter(snapshots, others, run[r].today)
              /\ forecasts' = ForecastsAfter(forecasts, others)
              /\ run' = [run EXCEPT ![r].written = Len(others),
                                    ![r].write_failures = 1,
                                    ![r].snap_fault = Some(k),
                                    ![r].scored_at = clock,
                                    ![r].i = 1]
    /\ pc' = [pc EXCEPT ![r] = "score"]
    /\ UNCHANGED <<overrides, scores, day, clock, started, ops, expired>>
    /\ UNCHANGED cron_day
    /\ MainFrame

\* write_weather_snapshots when a statement of resort k fails in the
\* database.  The failed transaction takes every later statement with it
\* and the commit persists nothing, for no resort; the commit either raises
\* (run_pipeline ends there) or returns.
WriteSnapshotsFault(r) ==
    /\ pc[r] = "snap"
    /\ \E k \in 1..Len(run[r].weather), raises \in BOOLEAN :
          /\ run' = [run EXCEPT ![r] =
                        IF raises THEN LocalInit
                        ELSE [@ EXCEPT !.written = k - 1,
                                       !.write_failures = Len(run[r].weather) - k + 1,
                                       !.snap_fault = Some(k),
                                       !.scored_at = clock,
                                       !.i = 1]]
          /\ pc' = [pc EXCEPT ![r] = IF raises THEN "idle" ELSE "score"]
    /\ UNCHANGED <<dbVars, day, clock, started, ops, expired>>
    /\ UNCHANGED cron_day
    /\ MainFrame

\* forecast_days of the scoring loop: distance_days = forecast_date - today
ScorerForecastDays(w, today) ==
    [k \in 1..Len(w.forecasts) |->
        [distance_days |-> w.forecasts[k].forecast_date - today,
         snowfall_cm |-> w.forecasts[k].snowfall_cm,
         confidence |-> w.forecasts[k].confidence_score]]

\* Score rows for horizon 0 alone.
ScoreRowsTodayOnly(w, today, scored_at, month) ==
    {[resort_id |-> w.resort_id, scored_at |-> scored_at, horizon_days |-> 0,
      score_total |-> Some(0), score_base_depth |-> 0, score_fresh_snow |-> 0,
      score_temperature |-> 0, score_wind |-> 0, score_forecast |-> 0,
      rank_global |-> None]}

\* scores_by_horizon of one pass of the scoring loop, as the rows
\* write_scores adds for it.
ScoreRows(w, today, scored_at, month) ==
    {LET res == compute_score(
                    [snow_depth_cm |-> w.snow_depth_cm,
                     new_snow_72h_cm |-> w.new_snow_72h_cm,
                     temperature_c |-> w.temperature_c,
                     wind_speed_kmh |-> w.wind_speed_kmh],
                    ScorerForecastDays(w, today),
                    resort_meta_map(w.resort_id),
                    SCORE_HORIZONS[n], DEFAULT_WEIGHTS, month)
     IN  [resort_id |-> w.resort_id, scored_at |-> scored_at,
          horizon_days |-> SCORE_HORIZONS[n],
          score_total |-> Some(res.score_total),
          score_base_depth |-> res.score_base_depth,
          score_fresh_snow |-> res.score_fresh_snow,
          score_temperature |-> res.score_temperature,
          score_wind |-> res.score_wind,
          score_forecast |-> res.score_forecast,
          rank_global |-> None] : n \in 1..Len(SCORE_HORIZONS)}

\* write_scores: per horizon delete the resort's row, add the new one; commit.
ScoresAfter(rows, w, today, scored_at, month) ==
    {s \in rows : s.resort_id # w.resort_id \/ s.horizon_days \notin Range(SCORE_HORIZONS)}
    \cup ScoreRows(w, today, scored_at, month)

AfterScore(r) == IF run[r].i >= Len(run[r].weather) THEN "rank" ELSE "score"

\* One pass of the scoring loop whose write_scores commits.
WriteScores(r) ==
    /\ pc[r] = "score"
    /\ run[r].session_ok
    /\ scores' = ScoresAfter(scores, run[r].weather[run[r].i], run[r].today,
                             run[r].scored_at, RunMonth)
    /\ run' = [run EXCEPT ![r].i = @ + 1]
    /\ pc' = [pc EXCEPT ![r] = AfterScore(r)]
    /\ UNCHANGED <<overrides, snapshots, forecasts, day, clock, started, ops, expired>>
    /\ UNCHANGED cron_day
    /\ MainFrame

\* One pass whose write_scores raises on its own; run_pipeline logs it and
\* goes on with the same session.  A failure inside commit rolls the session
\* back; a failed statement leaves its transaction open and aborted.
WriteScoresFault(r) ==
    /\ pc[r] = "score"
    /\ run[r].session_ok
    /\ \E aborted \in BOOLEAN :
          run' = [run EXCEPT ![r].i = @ + 1,
                             ![r].score_failed = @ \cup {run[r].weather[run[r].i].resort_id},
                             ![r].session_ok = ~aborted]
    /\ pc' = [pc EXCEPT ![r] = AfterScore(r)]
    /\ UNCHANGED <<dbVars, day, clock, started, ops, expired>>
    /\ UNCHANGED cron_day
    /\ MainFrame

\* One pass after a statement of an earlier pass failed: the session's
\* transaction is aborted, so this write_scores raises at its first
\* statement and nothing of it is written.
WriteScoresBlocked(r) ==
    /\ pc[r] = "score"
    /\ ~run[r].session_ok
    /\ run' = [run EXCEPT ![r].i = @ + 1,
                          ![r].score_blocked = @ \cup {run[r].weather[run[r].i].resort_id}]
    /\ pc' = [pc EXCEPT ![r] = AfterScore(r)]
    /\ UNCHANGED <<dbVars, day, clock, started, ops, expired>>
    /\ UNCHANGED cron_day
    /\ MainFrame

\* ----------------------------------------------------- update_global_ranks
\* The rows holding each resort's latest score at a horizon.
LatestScores(rows, horizon) ==
    {s \in rows : /\ s.horizon_days = horizon
                  /\ \A t \in rows : (t.resort_id = s.resort_id /\ t.horizon_days = horizon)
                                        => t.scored_at <= s.scored_at}

\* score_total.desc().nullslast(): row a sorts strictly before row b.
SortsBefore(a, b) ==
    /\ ~IsNone(a.score_total)
    /\ IsNone(b.score_total) \/ Val(a.score_total) > Val(b.score_total)

\* The order with the database's default for DESC, nulls first.
RankOrdersNullsFirst(latest) ==
    {f \in [latest -> 1..Cardinality(latest)] :
        /\ \A a, b \in latest : a # b => f[a] # f[b]
        /\ \A a, b \in latest :
              (/\ ~IsNone(b.score_total)
               /\ IsNone(a.score_total) \/ Val(a.score_total) > Val(b.score_total))
                  => f[a] < f[b]}

\* order_by(score_total.desc().nullslast()) and enumerate(scores, start=1):
\* every order the database may return, as rank functions; rows of equal
\* score come in any order.
RankOrders(latest) ==
    {f \in [latest -> 1..Cardinality(latest)] :
        /\ \A a, b \in latest : a # b => f[a] # f[b]
        /\ \A a, b \in latest : SortsBefore(a, b) => f[a] < f[b]}

\* update_global_ranks for one horizon: the table after its commit, for
\* every order the query may return.
RankedTables(rows, horizon) ==
    LET latest == LatestScores(rows, horizon) IN
    {(rows \ latest) \cup {[s EXCEPT !.rank_global = Some(f[s])] : s \in latest} :
        f \in RankOrders(latest)}

\* for horizon in SCORE_HORIZONS: update_global_ranks(session, horizon, ...),
\* from the n-th horizon on.
RECURSIVE RankedFrom(_, _)
RankedFrom(rows, n) ==
    IF n > Len(SCORE_HORIZONS) THEN {rows}
    ELSE UNION {RankedFrom(t, n + 1) : t \in RankedTables(rows, SCORE_HORIZONS[n])}

\* The ranking loop, then run_pipeline returns and its locals are gone.
UpdateRanks(r) ==
    /\ pc[r] = "rank"
    /\ scores' \in RankedFrom(scores, 1)
    /\ run' = [run EXCEPT ![r] = LocalInit]
    /\ pc' = [pc EXCEPT ![r] = "idle"]
    /\ UNCHANGED <<overrides, snapshots, forecasts, day, clock, started, ops, expired>>
    /\ UNCHANGED cron_day
    /\ MainFrame

\* ------------------------------------------------- routers/admin.py
\* set_override as a plain insert, without the conflict clause.
SetOverrideRowsInsert(rows, resort_id, depth_cm, threshold_cm) ==
    rows \cup {[id |-> Cardinality(rows) + 1, resort_id |-> resort_id,
                override_depth_cm |-> depth_cm,
                cumulative_new_snow_since_cm |-> 0,
                new_snow_threshold_cm |-> threshold_cm,
                is_active |-> TRUE]}

\* set_override: insert, or on conflict on resort_id update the row in place.
SetOverrideRows(rows, resort_id, depth_cm, threshold_cm) ==
    IF \E o \in rows : o.resort_id = resort_id
    THEN {IF o.resort_id = resort_id
          THEN [o EXCEPT !.override_depth_cm = depth_cm,
                         !.cumulative_new_snow_since_cm = 0,
                         !.new_snow_threshold_cm = threshold_cm,
                         !.is_active = TRUE]
          ELSE o : o \in rows}
    ELSE rows \cup {[id |-> Cardinality(rows) + 1, resort_id |-> resort_id,
                     override_depth_cm |-> depth_cm,
                     cumulative_new_snow_since_cm |-> 0,
                     new_snow_threshold_cm |-> threshold_cm,
                     is_active |-> TRUE]}

SetOverride(limit, resorts, thresholds) ==
    /\ ops < limit
    /\ \E id \in resorts, depth_cm \in OverrideDepths, threshold_cm \in thresholds :
          /\ overrides' = SetOverrideRows(overrides, id, depth_cm, threshold_cm)
          /\ expired' = {e \in expired : \A o \in overrides : o.id = e.id => o.resort_id # id}
    /\ ops' = ops + 1
    /\ UNCHANGED <<snapshots, forecasts, scores, day, clock, pc, run, started>>
    /\ UNCHANGED cron_day
    /\ MainFrame

\* clear_override: update ... where resort_id = ... values(is_active=False);
\* a request that matches no row changes nothing and is left out
ClearOverrideRows(rows, resort_id) ==
    {IF o.resort_id = resort_id THEN [o EXCEPT !.is_active = FALSE] ELSE o : o \in rows}

ClearOverride(limit, resorts) ==
    /\ ops < limit
    /\ \E id \in resorts :
          /\ \E o \in overrides : o.resort_id = id
          /\ overrides' = ClearOverrideRows(overrides, id)
    /\ ops' = ops + 1
    /\ UNCHANGED <<snapshots, forecasts, scores, day, clock, pc, run, started, expired>>
    /\ UNCHANGED cron_day
    /\ MainFrame

\* Midnight.
NewDay ==
    /\ day < MaxDay
    /\ day' = day + 1
    /\ UNCHANGED <<dbVars, clock, pc, run, started, ops, expired>>
    /\ UNCHANGED cron_day
    /\ MainFrame

\* ======================================================================
\* Specifications
\* ======================================================================
\* No execution of run_pipeline has begun and no operator request was served.
RunsIdle ==
    /\ day = 1 /\ clock = 1
    /\ pc = [r \in Runs |-> "idle"]
    /\ run = [r \in Runs |-> LocalInit]
    /\ started = 0 /\ ops = 0 /\ expired = {} /\ cron_day = 0

\* The tables the pipeline writes, as deployed.
NoReadings == snapshots = {} /\ forecasts = {} /\ scores = {}

\* --------------------------------------------------- one day of operation
\* From the database as deployed: the schedule and the admin trigger start
\* run_pipeline, the operator sets an override and may clear it.
MainInit == RunsIdle /\ NoReadings /\ overrides = {} /\ first_db = <<>>

Init == MainInit /\ FetchIdle /\ ValIdle /\ TempIdle /\ ComputeIdle /\ StationIdle

Next ==
    \/ \E r \in Runs : Begin(r, MaxRuns, BatchOutcomeChoices(ResortRows, day)) /\ UNCHANGED first_db
    \/ \E r \in Runs : ReadPrevious(r, StationChoices) /\ UNCHANGED first_db
    \/ \E r \in Runs : ReadOverrides(r) /\ UNCHANGED first_db
    \/ \E r \in Runs : WriteOverrides(r) /\ UNCHANGED first_db
    \/ \E r \in Runs : WriteSnapshots(r) /\ UNCHANGED first_db
    \/ \E r \in Runs : WriteScores(r) /\ UNCHANGED first_db
    \/ \E r \in Runs : UpdateRanks(r) /\ UNCHANGED first_db
    \/ SetOverride(MaxSets, OverrideResorts, OverrideThresholds) /\ UNCHANGED first_db
    \/ ClearOverride(MaxOps, OverrideResorts) /\ UNCHANGED first_db

Spec == Init /\ [][Next]_vars

\* ------------------------------------------------------- overlapping runs
\* The operator has set an override on the first resort, to expire at 10 cm;
\* then the schedule and the admin trigger start run_pipeline.
OverlapInit ==
    /\ RunsIdle /\ NoReadings /\ first_db = <<>>
    /\ overrides = SetOverrideRows({}, 1, 800, 100)
    /\ FetchIdle /\ ValIdle /\ TempIdle /\ ComputeIdle /\ StationIdle

OverlapNext ==
    \/ \E r \in Runs : Begin(r, MaxOverlapRuns, BatchOutcomeChoices(ResortRows, day)) /\ UNCHANGED first_db
    \/ \E r \in Runs : ReadPrevious(r, StationChoices) /\ UNCHANGED first_db
    \/ \E r \in Runs : ReadOverrides(r) /\ UNCHANGED first_db
    \/ \E r \in Runs : WriteOverrides(r) /\ UNCHANGED first_db
    \/ \E r \in Runs : WriteSnapshots(r) /\ UNCHANGED first_db
    \/ \E r \in Runs : WriteScores(r) /\ UNCHANGED first_db
    \/ \E r \in Runs : UpdateRanks(r) /\ UNCHANGED first_db

SpecOverlap == OverlapInit /\ [][OverlapNext]_vars

\* ------------------------------------------------------ database failures
\* The scheduled run alone, day after day, with writes that fail.
FaultsNext ==
    \/ Begin("cron", MaxRuns, BatchOutcomeChoices(ResortRows, day)) /\ UNCHANGED first_db
    \/ ReadPrevious("cron", StationChoices) /\ UNCHANGED first_db
    \/ ReadOverrides("cron") /\ UNCHANGED first_db
    \/ WriteOverrides("cron") /\ UNCHANGED first_db
    \/ WriteSnapshots("cron") /\ UNCHANGED first_db
    \/ WriteSnapshotsSkip("cron") /\ UNCHANGED first_db
    \/ WriteSnapshotsFault("cron") /\ UNCHANGED first_db
    \/ WriteScores("cron") /\ UNCHANGED first_db
    \/ WriteScoresFault("cron") /\ UNCHANGED first_db
    \/ WriteScoresBlocked("cron") /\ UNCHANGED first_db
    \/ UpdateRanks("cron") /\ UNCHANGED first_db
    \/ NewDay /\ UNCHANGED first_db

SpecFaults == Init /\ [][FaultsNext]_vars

\* ------------------------------------------------------ a same-day re-run
\* The values the idempotence requirement is about: per snapshot its depth
\* and new snow, per score its total, per override its state.
Persisted(ov, sn, sc) ==
    [overrides |-> {[resort_id |-> o.resort_id, is_active |-> o.is_active,
                     cumulative |-> o.cumulative_new_snow_since_cm] : o \in ov},
     snapshots |-> {[resort_id |-> x.resort_id, data_date |-> x.data_date,
                     snow_depth_cm |-> x.snow_depth_cm,
                     new_snow_24h_cm |-> x.new_snow_24h_cm,
                     new_snow_72h_cm |-> x.new_snow_72h_cm] : x \in sn},
     scores |-> {[resort_id |-> x.resort_id, horizon_days |-> x.horizon_days,
                  score_total |-> x.score_total] : x \in sc}]

\* The admin trigger runs the pipeline twice on one day, the second time
\* after the first has returned and with the sources answering as before;
\* the operator had set an override to expire at 10 or 20 cm, or none.
RerunInit ==
    /\ RunsIdle /\ NoReadings
    /\ overrides \in {{}, SetOverrideRows({}, 1, 800, 100), SetOverrideRows({}, 1, 800, 200)}
    /\ first_db = [outcomes |-> None, station |-> None, rows |-> None]
    /\ FetchIdle /\ ValIdle /\ TempIdle /\ ComputeIdle /\ StationIdle

RerunOutcomes ==
    IF IsNone(first_db.outcomes) THEN BatchOutcomeChoices(ResortRows, day)
    ELSE {Val(first_db.outcomes)}

RerunStations ==
    IF IsNone(first_db.station) THEN StationChoices ELSE {Val(first_db.station)}

RerunNext ==
    \/ \E c \in RerunOutcomes :
          Begin("admin", MaxReruns, {c}) /\ first_db' = [first_db EXCEPT !.outcomes = Some(c)]
    \/ \E c \in RerunStations :
          ReadPrevious("admin", {c}) /\ first_db' = [first_db EXCEPT !.station = Some(c)]
    \/ ReadOverrides("admin") /\ UNCHANGED first_db
    \/ WriteOverrides("admin") /\ UNCHANGED first_db
    \/ WriteSnapshots("admin") /\ UNCHANGED first_db
    \/ WriteScores("admin") /\ UNCHANGED first_db
    \/ /\ UpdateRanks("admin")
       /\ first_db' = IF IsNone(first_db.rows)
                      THEN [first_db EXCEPT !.rows = Some(Persisted(overrides', snapshots', scores'))]
                      ELSE first_db

SpecRerun == RerunInit /\ [][RerunNext]_vars

\* ------------------------------------------------- concurrent transactions
\* The schedule and the admin trigger start run_pipeline on one day; the
\* statements and the commit of write_weather_snapshots are separate steps.
TransactionsNext ==
    \/ \E r \in Runs : Begin(r, MaxConcurrentRuns, BatchOutcomeChoices(ResortRows, day)) /\ UNCHANGED first_db
    \/ \E r \in Runs : ReadPrevious(r, StationChoices) /\ UNCHANGED first_db
    \/ \E r \in Runs : ReadOverrides(r) /\ UNCHANGED first_db
    \/ \E r \in Runs : WriteOverrides(r) /\ UNCHANGED first_db
    \/ \E r \in Runs : SnapshotStatements(r) /\ UNCHANGED first_db
    \/ \E r \in Runs : SnapshotCommit(r) /\ UNCHANGED first_db
    \/ \E r \in Runs : WriteScores(r) /\ UNCHANGED first_db
    \/ \E r \in Runs : UpdateRanks(r) /\ UNCHANGED first_db

SpecTransactions == Init /\ [][TransactionsNext]_vars

\* -------------------------------------------------------------- ranking
\* A row of resort_scores as the ranking reads it.
ScoreRowOf(id, horizon, scored_at, total, rank) ==
    [resort_id |-> id, scored_at |-> scored_at, horizon_days |-> horizon,
     score_total |-> total, score_base_depth |-> 0, score_fresh_snow |-> 0,
     score_temperature |-> 0, score_wind |-> 0, score_forecast |-> 0,
     rank_global |-> rank]

\* What the table can hold for one resort when the ranking loop begins:
\* nothing, a row per horizon from the last scoring (score_total is a
\* nullable column), or besides it an older row that carries a rank.
RankRowChoices(id) ==
    {{}} \cup
    {{ScoreRowOf(id, 0, 2, t, None), ScoreRowOf(id, 3, 2, Some(400), None)} :
        t \in {None, Some(500), Some(700)}} \cup
    {{ScoreRowOf(id, 0, 1, Some(900), Some(1)), ScoreRowOf(id, 0, 2, Some(500), None),
      ScoreRowOf(id, 3, 2, None, None)}}

RankTables ==
    {UNION {f[id] : id \in 1..RankResorts} :
        f \in {g \in [1..RankResorts -> UNION {RankRowChoices(id) : id \in 1..RankResorts}] :
                  \A id \in 1..RankResorts : g[id] \in RankRowChoices(id)}}

\* An execution of run_pipeline has reached its ranking loop.
RankInit ==
    /\ scores \in RankTables
    /\ overrides = {} /\ snapshots = {} /\ forecasts = {}
    /\ day = 1 /\ clock = 3
    /\ pc = [r \in Runs |-> IF r = "admin" THEN "rank" ELSE "idle"]
    /\ run = [r \in Runs |-> LocalInit]
    /\ started = 1 /\ ops = 0 /\ expired = {} /\ cron_day = 0 /\ first_db = <<>>
    /\ FetchIdle /\ ValIdle /\ TempIdle /\ ComputeIdle /\ StationIdle

RankNext == UpdateRanks("admin") /\ UNCHANGED first_db

SpecRank == RankInit /\ [][RankNext]_vars

\* ------------------------------------------------------ the failure rate
\* An execution over a table of n resorts, of which the first f failed to
\* fetch and the others answered a dry day, has reconciled its readings
\* (no station, no override) and is about to validate them and to compare
\* the failure rate.
AlertLocals(n, f) ==
    [LocalInit EXCEPT
        !.today = 1, !.started_at = 1,
        !.resorts = [i \in 1..n |-> ResortRow(i)],
        !.failed_ids = [k \in 1..f |-> k],
        !.weather = [k \in 1..(n - f) |-> ParseItem(f + k, ItemThin(f + k, 1), 1)]]

AlertInit ==
    /\ \E n \in 1..AlertResorts : \E f \in 0..n :
          run = [r \in Runs |-> IF r = "admin" THEN AlertLocals(n, f) ELSE LocalInit]
    /\ pc = [r \in Runs |-> IF r = "admin" THEN "ovwrite" ELSE "idle"]
    /\ NoReadings /\ overrides = {}
    /\ day = 1 /\ clock = 2
    /\ started = 1 /\ ops = 0 /\ expired = {} /\ cron_day = 0 /\ first_db = <<>>
    /\ FetchIdle /\ ValIdle /\ TempIdle /\ ComputeIdle /\ StationIdle

AlertNext == WriteOverrides("admin") /\ UNCHANGED first_db

SpecAlert == AlertInit /\ [][AlertNext]_vars

\* ------------------------------------------------------------- scoring
\* The forecast lists of the scored readings: none; three days of heavy
\* snow at full confidence; days at the offsets 3, 7 and the last one with
\* null, no and some snow at confidence 0, 0.5 and 1; every offset with a
\* little snow at the parser's confidence.
ForecastDayOf(today, offset, snowfall_cm, confidence) ==
    [forecast_date |-> today + offset, snowfall_cm |-> snowfall_cm,
     wind_speed_max_kmh |-> None, confidence_score |-> confidence,
     source |-> "open_meteo"]

ForecastLists(today) ==
    {<<>>,
     [k \in 1..3 |-> ForecastDayOf(today, k - 1, Some(300), 1000)],
     <<ForecastDayOf(today, 3, None, 0), ForecastDayOf(today, 7, Some(0), 500),
       ForecastDayOf(today, MaxOffset, Some(50), 1000)>>,
     [k \in 1..(MaxOffset + 1) |-> ForecastDayOf(today, k - 1, Some(10), Confidence(k - 1))]}

\* The readings the scoring loop is given: any field null, depth, snowfall
\* and wind not negative.
ScoredReadings(today) ==
    {[ParseItem(id, ItemThin(id, today), 1) EXCEPT
          !.snow_depth_cm = depth, !.new_snow_72h_cm = fresh,
          !.temperature_c = temp, !.wind_speed_kmh = wind, !.forecasts = fcs] :
        id \in 1..NumResorts,
        depth \in {None, Some(0), Some(400), Some(1800), Some(9000)},
        fresh \in {None, Some(0), Some(100), Some(400)},
        temp \in {None, Some(-100), Some(-300), Some(30)},
        wind \in {None, Some(0), Some(850)},
        fcs \in ForecastLists(today)}

\* An execution has written the snapshot of its one reading and enters the
\* scoring loop.
ScoreInit ==
    /\ \E w \in ScoredReadings(1) :
          /\ run = [r \in Runs |->
                      IF r = "admin"
                      THEN [LocalInit EXCEPT !.today = 1, !.started_at = 1,
                                             !.resorts = ResortRows,
                                             !.weather = <<w>>, !.written = 1,
                                             !.scored_at = 2, !.i = 1]
                      ELSE LocalInit]
          /\ snapshots = SnapshotsAfter({}, <<w>>, 1)
          /\ forecasts = ForecastsAfter({}, <<w>>)
    /\ pc = [r \in Runs |-> IF r = "admin" THEN "score" ELSE "idle"]
    /\ scores = {} /\ overrides = {}
    /\ day = 1 /\ clock = 2
    /\ started = 1 /\ ops = 0 /\ expired = {} /\ cron_day = 0 /\ first_db = <<>>
    /\ FetchIdle /\ ValIdle /\ TempIdle /\ ComputeIdle /\ StationIdle

ScoreNext == WriteScores("admin") /\ UNCHANGED first_db

SpecScore == ScoreInit /\ [][ScoreNext]_vars

\* ------------------------------------------------------ a run to its end
\* One scheduled execution followed attempt by attempt: the batch requests
\* of its resorts are those of the fetcher specification, the station
\* request fails up to HTTP_RETRIES times, every later step is the
\* pipeline's.  The overlay delivers nothing.
RunBatches == 1..Len(Batches(ResortRows))

LiveInit ==
    /\ MainInit /\ FetchInit
    /\ ValIdle /\ TempIdle /\ ComputeIdle /\ StationIdle

\* fetch_all_resorts returns once every batch request has ended.
BeginFetched(r) ==
    /\ \A b \in RunBatches : bst[b] \in {"ok", "gaveup", "raised"}
    /\ Begin(r, MaxRuns, {[b \in RunBatches |-> FetchOutcome(b)]})

\* An attempt of the station request fails or times out, and the wait
\* after it is slept.
StationAttemptFail(r) ==
    /\ pc[r] = "prev"
    /\ run[r].station_tries < HTTP_RETRIES
    /\ run' = [run EXCEPT ![r].station_tries = @ + 1]
    /\ UNCHANGED <<dbVars, day, clock, pc, started, ops, expired>>
    /\ UNCHANGED cron_day
    /\ MainFrame

\* What the station request can still return: nothing once every attempt
\* has failed.
StationAfter(r) == IF run[r].station_tries = HTTP_RETRIES THEN {None} ELSE StationChoices

LiveNext ==
    \/ \E b \in RunBatches : AttemptOk(b)
    \/ \E b \in RunBatches : AttemptFail(b)
    \/ \E b \in RunBatches : AttemptRaise(b)
    \/ \E b \in RunBatches : Wake(b)
    \/ BeginFetched("cron") /\ UNCHANGED first_db
    \/ StationAttemptFail("cron") /\ UNCHANGED first_db
    \/ ReadPrevious("cron", StationAfter("cron")) /\ UNCHANGED first_db
    \/ ReadOverrides("cron") /\ UNCHANGED first_db
    \/ WriteOverrides("cron") /\ UNCHANGED first_db
    \/ WriteSnapshots("cron") /\ UNCHANGED first_db
    \/ WriteScores("cron") /\ UNCHANGED first_db
    \/ UpdateRanks("cron") /\ UNCHANGED first_db

\* Every await of the run returns: a request answers, fails or times out, a
\* sleep ends, a database statement completes.
SpecLive == LiveInit /\ [][LiveNext]_vars /\ WF_vars(LiveNext)

\* ------------------------------------------------------ station networks
\* data/resort_snotel_map.json: the station triplet of a slug, None without
\* one.  The first and the third resort share a station.
SnotelMap(slug) ==
    IF slug \in {Slug(1), Slug(3)} THEN Some(1)
    ELSE IF slug = Slug(2) THEN Some(2)
    ELSE None

\* round(snow_depth_in * 2.54, 1); a raw value is a number of 1/10 inch.
SnotelDepthCm(value) == RoundHalfEven(254 * value, 100)

\* triplet_to_slug = {info["triplet"]: slug for slug, info in mapped.items()}:
\* the last of the requested slugs mapped to the triplet.
RECURSIVE triplet_to_slug(_, _)
triplet_to_slug(slugs, triplet) ==
    IF slugs = <<>> THEN None
    ELSE IF SnotelMap(slugs[Len(slugs)]) = Some(triplet) THEN Some(slugs[Len(slugs)])
    ELSE triplet_to_slug(SubSeq(slugs, 1, Len(slugs) - 1), triplet)

\* _parse_snotel_response: the reading left for a slug is that of the last
\* item whose triplet leads to the slug and that has a non-null value.  A
\* response is a sequence of [stid, depths].
RECURSIVE SnotelReadingFor(_, _, _)
SnotelReadingFor(items, slugs, slug) ==
    IF items = <<>> THEN None
    ELSE LET item == items[Len(items)]
             rest == SubSeq(items, 1, Len(items) - 1)
         IN  IF triplet_to_slug(slugs, item.stid) = Some(slug)
                /\ ~IsNone(LatestNonNull(item.depths))
             THEN Some([snow_depth_cm |-> SnotelDepthCm(Val(LatestNonNull(item.depths))),
                        stid |-> item.stid])
             ELSE SnotelReadingFor(rest, slugs, slug)

\* fetch_snotel_depths: slug -> SnotelReading for the slugs that got one.
\* response is None when the request failed on every attempt.
fetch_snotel_depths(slugs, response) ==
    IF IsNone(response) THEN <<>>
    ELSE LET got == {sl \in Range(slugs) :
                        ~IsNone(SnotelReadingFor(Val(response), slugs, sl))}
         IN  [sl \in got |-> Val(SnotelReadingFor(Val(response), slugs, sl))]

\* The slugs a call asks for.
SlugLists ==
    {<<>>, <<Slug(1)>>, <<Slug(2), Slug(4)>>, <<Slug(1), Slug(3)>>, <<Slug(3), Slug(1)>>,
     [i \in 1..StationResorts |-> Slug(i)], [i \in 1..StationResorts |-> Slug(StationResorts + 1 - i)]}

\* What a network answers: nothing (every attempt failed); no station; the
\* shared station with a recent depth; the shared station with null values
\* only; both stations; the shared station twice and a station nobody asked
\* for.
NetworkResponses ==
    {None,
     Some(<<>>),
     Some(<<[stid |-> 1, depths |-> <<Some(9004), None>>]>>),
     Some(<<[stid |-> 1, depths |-> <<None, None>>]>>),
     Some(<<[stid |-> 2, depths |-> <<Some(300)>>], [stid |-> 1, depths |-> <<Some(120), Some(125)>>]>>),
     Some(<<[stid |-> 1, depths |-> <<Some(55)>>], [stid |-> 1, depths |-> <<>>], [stid |-> 9, depths |-> <<Some(70)>>]>>)}

StationInit ==
    /\ stn_in \in [network : {"synoptic", "snotel"}, slugs : SlugLists, response : NetworkResponses]
    /\ stn_out = None
    /\ FetchIdle /\ ValIdle /\ TempIdle /\ ComputeIdle /\ MainIdle

FetchStationDepths ==
    /\ stn_in.network = "synoptic"
    /\ IsNone(stn_out)
    /\ stn_out' = Some(fetch_station_depths(stn_in.slugs, stn_in.response))
    /\ UNCHANGED stn_in
    /\ StationFrame

FetchSnotelDepths ==
    /\ stn_in.network = "snotel"
    /\ IsNone(stn_out)
    /\ stn_out' = Some(fetch_snotel_depths(stn_in.slugs, stn_in.response))
    /\ UNCHANGED stn_in
    /\ StationFrame

StationNext == FetchStationDepths \/ FetchSnotelDepths

SpecStation == StationInit /\ [][StationNext]_vars

\* ---------------------------------------------------- temperature score
\* One call of score_temperature: the argument is null or a temperature in
\* tenths of a degree between -MaxCold and MaxTemp.
TempInit ==
    /\ temp_in \in {None} \cup {Some(t) : t \in (-MaxCold)..MaxTemp}
    /\ temp_out = None
    /\ FetchIdle /\ ValIdle /\ ComputeIdle /\ StationIdle /\ MainIdle

ScoreTemperature ==
    /\ IsNone(temp_out)
    /\ temp_out' = Some(score_temperature(temp_in))
    /\ UNCHANGED temp_in
    /\ TempFrame

TempNext == ScoreTemperature

SpecTemp == TempInit /\ [][TempNext]_vars

\* -------------------------------------------------------- composite score
\* w = weights or DEFAULT_WEIGHTS
WeightsOrDefault(weights) == IF IsNone(weights) THEN DEFAULT_WEIGHTS ELSE Val(weights)

ScorerDay(distance_days, snowfall_cm, confidence) ==
    [distance_days |-> distance_days, snowfall_cm |-> snowfall_cm, confidence |-> confidence]

\* The forecast lists of the calls: none; a week of 5 cm days from tomorrow
\* at confidence 0.9; today's day alone, as the parser builds it; today's day
\* without snowfall at confidence 0.5 followed by a day inside the first
\* horizon.
ScorerDayLists ==
    {<<>>,
     [k \in 1..7 |-> ScorerDay(k, Some(50), 900)],
     <<ScorerDay(0, Some(100), Confidence(0))>>,
     <<ScorerDay(0, None, 500), ScorerDay(3, Some(200), 800)>>}

\* The weights of the calls, in hundredths: none given, and three
\* dictionaries of five weights in the same proportions.
WeightChoices ==
    {None,
     Some([base_depth |-> 5, fresh_snow |-> 5, temperature |-> 5, wind |-> 30, forecast |-> 5]),
     Some([base_depth |-> 10, fresh_snow |-> 10, temperature |-> 10, wind |-> 60, forecast |-> 10]),
     Some([base_depth |-> 20, fresh_snow |-> 20, temperature |-> 20, wind |-> 120, forecast |-> 20])}

CurrentChoices ==
    [snow_depth_cm : {None, Some(1800)},
     new_snow_72h_cm : {None, Some(100)},
     temperature_c : {Some(-100), Some(30)},
     wind_speed_kmh : {None, Some(900)}]

\* Two calls for the same resort, conditions, horizon and month; the
\* forecast list and the weights of each call are chosen freely.
ComputeInit ==
    /\ \E current \in CurrentChoices, id \in 1..NumResorts,
          n \in 1..Len(SCORE_HORIZONS), days \in ScorerDayLists \X ScorerDayLists,
          weights \in WeightChoices \X WeightChoices :
          score_in = [k \in 1..2 |->
                         [current |-> current, forecast_days |-> days[k],
                          meta |-> resort_meta_map(id),
                          horizon_days |-> SCORE_HORIZONS[n],
                          weights |-> weights[k], current_month |-> RunMonth]]
    /\ score_out = <<>>
    /\ FetchIdle /\ ValIdle /\ TempIdle /\ StationIdle /\ MainIdle

ComputeScore ==
    /\ Len(score_out) < Len(score_in)
    /\ LET a == score_in[Len(score_out) + 1]
       IN  score_out' = Append(score_out,
                               compute_score(a.current, a.forecast_days, a.meta,
                                             a.horizon_days, WeightsOrDefault(a.weights),
                                             a.current_month))
    /\ UNCHANGED score_in
    /\ ComputeFrame

ComputeNext == ComputeScore

SpecCompute == ComputeInit /\ [][ComputeNext]_vars

\* ------------------------------------------------------ operator requests
\* The admin trigger runs the pipeline, one execution after the other, while
\* the operator sets and clears overrides on any resort.
RequestsNext ==
    \/ Begin("admin", MaxRequestRuns, BatchOutcomeChoices(ResortRows, day)) /\ UNCHANGED first_db
    \/ ReadPrevious("admin", StationChoices) /\ UNCHANGED first_db
    \/ ReadOverrides("admin") /\ UNCHANGED first_db
    \/ WriteOverrides("admin") /\ UNCHANGED first_db
    \/ WriteSnapshots("admin") /\ UNCHANGED first_db
    \/ WriteScores("admin") /\ UNCHANGED first_db
    \/ UpdateRanks("admin") /\ UNCHANGED first_db
    \/ SetOverride(MaxRequests, 1..NumResorts, OverrideThresholds) /\ UNCHANGED first_db
    \/ ClearOverride(MaxRequests, 1..NumResorts) /\ UNCHANGED first_db

SpecRequests == Init /\ [][RequestsNext]_vars

FetchSpecInit == FetchInit /\ ValIdle /\ TempIdle /\ ComputeIdle /\ StationIdle /\ MainIdle

SpecFetch == FetchSpecInit /\ [][FetchNext]_vars

ValNext == Validate

ValSpecInit == ValInit /\ FetchIdle /\ TempIdle /\ ComputeIdle /\ StationIdle /\ MainIdle

SpecVal == ValSpecInit /\ [][ValNext]_vars

\* ======================================================================
\* Claims about run_pipeline
\* ======================================================================
\* The executions that have reconciled their readings and not yet returned.
Reconciled(r) == pc[r] \in {"ovwrite", "snap", "score", "rank"}

\* The entry of override_updates the run made for a resort, as a set.
UpdatesFor(r, resort_id) ==
    {run[r].override_updates[k] : k \in {j \in 1..Len(run[r].override_updates) :
                                            run[r].override_updates[j].resort_id = resort_id}}

\* The run read an active override for the resort and did not expire it.
KeepsOverride(r, resort_id) ==
    /\ resort_id \in DOMAIN run[r].active_overrides
    /\ \E u \in UpdatesFor(r, resort_id) : u.is_active

HasStation(r, resort_id) == Slug(resort_id) \in DOMAIN run[r].station_readings

\* C1: after reconciliation, every fetched resort's accepted depth and
\* provenance follow override > station > model: the override depth as
\* manual_override when the run read an active override and did not expire
\* it; else the station depth as synoptic_station when the resort has a
\* station reading; else the model depth as open_meteo.
C1_PrecedenceOverrideStationModel ==
    \A r \in Runs : pc[r] = "ovwrite" =>
        \A i \in 1..Len(run[r].weather) :
            LET w == run[r].weather[i] IN
            IF KeepsOverride(r, w.resort_id)
            THEN /\ w.snow_depth_cm = Some(run[r].active_overrides[w.resort_id].override_depth_cm)
                 /\ w.depth_source = "manual_override"
            ELSE IF HasStation(r, w.resort_id)
            THEN /\ w.snow_depth_cm = Some(run[r].station_readings[Slug(w.resort_id)].snow_depth_cm)
                 /\ w.depth_source = "synoptic_station"
            ELSE /\ w.snow_depth_cm = w.openmeteo_depth_cm
                 /\ w.depth_source = "open_meteo"

\* A reconciled resort with a station reading and a kept override: the
\* override depth was accepted, and it differs from the station's.
C1_Witness ==
    \E r \in Runs : /\ pc[r] = "ovwrite"
                    /\ \E i \in 1..Len(run[r].weather) :
                          LET w == run[r].weather[i] IN
                          /\ KeepsOverride(r, w.resort_id)
                          /\ HasStation(r, w.resort_id)
                          /\ w.depth_source = "manual_override"
                          /\ w.snow_depth_cm #
                                Some(run[r].station_readings[Slug(w.resort_id)].snow_depth_cm)

\* A reconciled resort whose override expired in the run while a station
\* reading exists: the station depth was accepted.
C1_WitnessStation ==
    \E r \in Runs : /\ pc[r] = "ovwrite"
                    /\ \E i \in 1..Len(run[r].weather) :
                          LET w == run[r].weather[i] IN
                          /\ w.resort_id \in DOMAIN run[r].active_overrides
                          /\ ~KeepsOverride(r, w.resort_id)
                          /\ HasStation(r, w.resort_id)
                          /\ w.depth_source = "synoptic_station"

\* C2: for every fetched resort with an active override, whatever its
\* threshold >= 0, the run computes stored cumulative + new_snow_24h_cm
\* (null as 0); when that reaches the stored threshold the override is
\* written back inactive and its depth is not applied, otherwise it is
\* written back active with that cumulative and its depth is applied.
C2_OverrideLifecycle ==
    \A r \in Runs : pc[r] = "ovwrite" =>
        \A i \in 1..Len(run[r].weather) :
            LET w == run[r].weather[i] IN
            w.resort_id \in DOMAIN run[r].active_overrides =>
                LET ov == run[r].active_overrides[w.resort_id]
                    cumulative == ov.cumulative_new_snow_since_cm
                                  + (IF IsNone(w.new_snow_24h_cm) THEN 0
                                     ELSE Val(w.new_snow_24h_cm))
                IN  /\ Cardinality(UpdatesFor(r, w.resort_id)) = 1
                    /\ \A u \in UpdatesFor(r, w.resort_id) :
                          /\ u.id = ov.id
                          /\ u.cumulative = cumulative
                          /\ u.is_active = (cumulative < StoredThreshold(ov))
                    /\ IF cumulative >= StoredThreshold(ov)
                       THEN w.depth_source # "manual_override"
                       ELSE /\ w.depth_source = "manual_override"
                            /\ w.snow_depth_cm = Some(ov.override_depth_cm)

\* C3: once a run has flipped an override to inactive, no run begun after
\* the flip applies that override's depth or writes to its row, as long as
\* the operator does not set the override again.
C3_ExpiredOverrideStaysExpired ==
    \A e \in expired : \A r \in Runs :
        (Reconciled(r) /\ run[r].started_at >= e.at) =>
            /\ \A k \in 1..Len(run[r].override_updates) :
                  run[r].override_updates[k].id # e.id
            /\ \A i \in 1..Len(run[r].weather) :
                  (\E o \in overrides : o.id = e.id /\ o.resort_id = run[r].weather[i].resort_id)
                      => run[r].weather[i].depth_source # "manual_override"

\* C8: at most one execution of run_pipeline is in progress at any time.
C8_NoOverlappingRuns == Cardinality({r \in Runs : InProgress(r)}) <= 1

\* The resorts whose fetch did not fail in the run.
FetchedIds(r) == {i \in 1..NumResorts : \A k \in 1..Len(run[r].failed_ids) : run[r].failed_ids[k] # i}

\* The rows a run wrote for a resort: its snapshot of the day with every
\* forecast row, and its score rows.
HasSnapshotOf(r, sn, fc, resort_id) ==
    /\ \E x \in sn : /\ x.resort_id = resort_id
                     /\ x.fetched_at = run[r].started_at
                     /\ x.data_date = run[r].today
    /\ \A i \in 1..Len(run[r].weather) :
          run[r].weather[i].resort_id = resort_id =>
              /\ Len(run[r].weather[i].forecasts) > 0
              /\ \A k \in 1..Len(run[r].weather[i].forecasts) :
                    \E f \in fc : /\ f.resort_id = resort_id
                                  /\ f.fetched_at = run[r].started_at
                                  /\ f.forecast_date = run[r].weather[i].forecasts[k].forecast_date

HasScoresOf(sc, resort_id, scored_at) ==
    \A n \in 1..Len(SCORE_HORIZONS) :
        \E x \in sc : /\ x.resort_id = resort_id
                      /\ x.horizon_days = SCORE_HORIZONS[n]
                      /\ x.scored_at = scored_at

\* C6: in a run in which the fetch of exactly one resort failed, every
\* other resort is among the readings, the snapshot step writes its
\* snapshot with its forecasts, and the scoring loop, which passes over
\* every reading before the ranking, writes its score for every horizon.
C6_OtherResortsStillWritten ==
    [][\A r \in Runs : Len(run[r].failed_ids) = 1 =>
          /\ {run[r].weather[i].resort_id : i \in 1..Len(run[r].weather)} = FetchedIds(r)
          /\ (pc[r] = "snap" /\ pc'[r] # "snap") =>
                /\ pc'[r] = "score" /\ run'[r].i = 1
                /\ \A id \in FetchedIds(r) : HasSnapshotOf(r, snapshots', forecasts', id)
          /\ (pc[r] = "score" /\ run'[r] # run[r]) =>
                /\ HasScoresOf(scores', run[r].weather[run[r].i].resort_id, run[r].scored_at)
                /\ pc'[r] = "rank" <=> run[r].i = Len(run[r].weather)
                /\ pc'[r] = "score" => run'[r].i = run[r].i + 1]_vars

\* A run in which exactly one fetch failed has passed the scoring loop, and
\* the database holds its snapshot and its scores for another resort.
C6_Witness ==
    \E r \in Runs :
        /\ pc[r] = "rank"
        /\ Len(run[r].failed_ids) = 1
        /\ \E id \in FetchedIds(r) :
              /\ HasSnapshotOf(r, snapshots, forecasts, id)
              /\ HasScoresOf(scores, id, run[r].scored_at)

\* C7: after a second run on the same day with the same source data the
\* database holds one snapshot per resort and day and one score per resort
\* and horizon, with the depth, new-snow, score and override values the
\* first run left.
C7_RerunLeavesSameRows ==
    (started >= 2 /\ pc["admin"] = "idle" /\ ~IsNone(first_db.rows)) =>
        /\ Persisted(overrides, snapshots, scores) = Val(first_db.rows)
        /\ \A a, b \in snapshots :
              (a.resort_id = b.resort_id /\ a.data_date = b.data_date) => a = b
        /\ \A a, b \in scores :
              (a.resort_id = b.resort_id /\ a.horizon_days = b.horizon_days) => a = b

\* C10: a failure while writing one resort's snapshot, forecasts or scores
\* keeps no other resort's rows from being written and committed: after the
\* snapshot step every other reading has its snapshot and forecasts, and no
\* resort loses its scores to the failure of another.
C10_WriteFailureIsolated ==
    \A r \in Runs :
        /\ (pc[r] \in {"score", "rank"} /\ ~IsNone(run[r].snap_fault)) =>
              \A i \in 1..Len(run[r].weather) :
                  i # Val(run[r].snap_fault) =>
                      HasSnapshotOf(r, snapshots, forecasts, run[r].weather[i].resort_id)
        /\ run[r].score_blocked = {}

\* The run is past the station step and fetch_station_depths returned no
\* reading: every station request failed on all attempts.
StationFailed(r) ==
    /\ pc[r] \in {"ovread", "ovwrite", "snap", "score", "rank"}
    /\ run[r].station_readings = <<>>

\* The depth a run without station readings accepts for a reading: the
\* override depth when it kept an override, else the model depth.
DepthWithoutStation(r, w) ==
    IF KeepsOverride(r, w.resort_id)
    THEN Some(run[r].active_overrides[w.resort_id].override_depth_cm)
    ELSE w.openmeteo_depth_cm

\* C11: in a run whose station source failed entirely, the readings are the
\* resorts whose model fetch succeeded; the snapshot step writes for each of
\* them the snapshot of the run with its forecasts, holding the model depth
\* unless the run applied an override; and the scoring loop passes over
\* every reading and writes its scores for every horizon.
C11_StationOutageStillWrites ==
    [][\A r \in Runs : StationFailed(r) =>
          /\ {run[r].weather[i].resort_id : i \in 1..Len(run[r].weather)} = FetchedIds(r)
          /\ (pc[r] = "snap" /\ pc'[r] # "snap") =>
                /\ pc'[r] = IF FetchedIds(r) = {} THEN "rank" ELSE "score"
                /\ \A i \in 1..Len(run[r].weather) :
                      LET w == run[r].weather[i] IN
                      /\ HasSnapshotOf(r, snapshots', forecasts', w.resort_id)
                      /\ \E x \in snapshots' :
                            /\ x.resort_id = w.resort_id
                            /\ x.fetched_at = run[r].started_at
                            /\ x.snow_depth_cm = DepthWithoutStation(r, w)
          /\ (pc[r] = "score" /\ run'[r] # run[r]) =>
                /\ HasScoresOf(scores', run[r].weather[run[r].i].resort_id, run[r].scored_at)
                /\ pc'[r] = "rank" <=> run[r].i = Len(run[r].weather)
                /\ pc'[r] = "score" => run'[r].i = run[r].i + 1]_vars

\* A run whose station source failed has passed the scoring loop; a resort
\* that has a station in the map got its snapshot with the model depth, from
\* the model, and its scores.
C11_Witness ==
    \E r \in Runs :
        /\ pc[r] = "rank"
        /\ StationFailed(r)
        /\ \E i \in 1..Len(run[r].weather) :
              LET w == run[r].weather[i] IN
              /\ ~IsNone(StationMap(Slug(w.resort_id)))
              /\ ~KeepsOverride(r, w.resort_id)
              /\ ~IsNone(w.openmeteo_depth_cm)
              /\ w.depth_source = "open_meteo"
              /\ \E x \in snapshots : /\ x.resort_id = w.resort_id
                                       /\ x.fetched_at = run[r].started_at
                                       /\ x.snow_depth_cm = w.openmeteo_depth_cm
              /\ HasScoresOf(scores, w.resort_id, run[r].scored_at)

\* The depths the parser can take from the answers for a location on a day:
\* the most recent non-null value of hourly.snow_depth.
ParsedDepths(loc, api_day) ==
    {LatestNonNull(items[1].snow_depth) :
        items \in {x \in PipelineResponses(<<loc>>, api_day) : ~x[1].error}}

\* C12: the fetch leaves every reading with openmeteo_depth_cm equal to the
\* depth it parsed from the model response; no later step of the run (the
\* station step and the override step among them) changes it; and the
\* validation step hands that value to run_validation, whatever the
\* provenance of the accepted depth.
C12_ModelDepthRetained ==
    [][\A r \in Runs :
          /\ (pc[r] = "idle" /\ pc'[r] = "prev") =>
                \A i \in 1..Len(run'[r].weather) :
                    LET w == run'[r].weather[i] IN
                    /\ w.openmeteo_depth_cm = w.snow_depth_cm
                    /\ w.openmeteo_depth_cm \in ParsedDepths(w.item_loc, run'[r].today)
          /\ (pc[r] # "idle" /\ pc'[r] # "idle") =>
                /\ Len(run'[r].weather) = Len(run[r].weather)
                /\ \A i \in 1..Len(run[r].weather) :
                      /\ run'[r].weather[i].resort_id = run[r].weather[i].resort_id
                      /\ run'[r].weather[i].openmeteo_depth_cm
                            = run[r].weather[i].openmeteo_depth_cm
          /\ (pc[r] = "ovwrite" /\ pc'[r] = "snap") =>
                \A i \in 1..Len(run[r].weather) :
                    LET w == run[r].weather[i]
                        prev == IF w.resort_id \in DOMAIN run[r].previous_depths
                                THEN Some(run[r].previous_depths[w.resort_id]) ELSE None
                        v == run_validation(resort_meta_map(w.resort_id), w.snow_depth_cm,
                                            w.openmeteo_depth_cm, prev, w.new_snow_24h_cm,
                                            w.avg_temp_72h_c, w.depth_source, RunMonth)
                    IN  /\ run'[r].weather[i].data_quality = v.quality
                        /\ run'[r].weather[i].quality_flags = v.flags]_vars

\* A validated run holds a reading whose accepted depth is the station's and
\* differs from the model depth the reading still carries.
C12_Witness ==
    \E r \in Runs :
        /\ pc[r] = "snap"
        /\ \E i \in 1..Len(run[r].weather) :
              LET w == run[r].weather[i] IN
              /\ w.depth_source = "synoptic_station"
              /\ ~IsNone(w.openmeteo_depth_cm)
              /\ w.snow_depth_cm # w.openmeteo_depth_cm
              /\ w.openmeteo_depth_cm \in ParsedDepths(w.item_loc, run[r].today)

\* The same with an override's depth accepted.
C12_WitnessOverride ==
    \E r \in Runs :
        /\ pc[r] = "snap"
        /\ \E i \in 1..Len(run[r].weather) :
              LET w == run[r].weather[i] IN
              /\ w.depth_source = "manual_override"
              /\ ~IsNone(w.openmeteo_depth_cm)
              /\ w.snow_depth_cm # w.openmeteo_depth_cm
              /\ w.openmeteo_depth_cm \in ParsedDepths(w.item_loc, run[r].today)

\* The override rows of a resort.
OverridesOf(rows, resort_id) == {o \in rows : o.resort_id = resort_id}

\* C13: every resort has at most one override row, whatever requests and
\* runs came before; no step removes a row or changes the resort or the id
\* of one; and a set_override that lands on a resort which has a row leaves
\* that same row active with cumulative new snow 0 and every other row as
\* it was.  A step is such a set_override when it serves a request and
\* leaves a row of the resort active that differs from the row before.
C13_OneOverrideRowPerResort ==
    /\ [](\A id \in 1..NumResorts : Cardinality(OverridesOf(overrides, id)) <= 1)
    /\ [][/\ \A o \in overrides :
                \E n \in overrides' : n.id = o.id /\ n.resort_id = o.resort_id
          /\ ops' # ops =>
                \A o \in overrides : \A n \in OverridesOf(overrides', o.resort_id) :
                    (n.is_active /\ n # o) =>
                        /\ n.id = o.id
                        /\ n.cumulative_new_snow_since_cm = 0
                        /\ overrides' \ {n} = overrides \ {o}]_vars

\* Every request was served and one row exists, active and counting from
\* 0 after a run wrote snapshots: the first request inserted it (a clear
\* needs a row), and the last was a set_override that landed on it.
C13_Witness ==
    /\ ops = MaxRequests
    /\ snapshots # {}
    /\ \E o \in overrides :
          /\ overrides = {o}
          /\ o.is_active
          /\ o.cumulative_new_snow_since_cm = 0

\* ======================================================================
\* Claims about the cross-source rule
\* ======================================================================
\* run_validation returned the flag of the cross-source rule.
CrossSourceFlagged == "cross_source_variance_ratio" \in Range(Val(val_out).flags)

\* C14: run_validation reports the cross-source rule as failed exactly when
\* the provenance is synoptic_station, the accepted (station) depth and the
\* model depth are both non-null and nonzero, and the larger is more than 3
\* times the smaller; in particular not for provenance open_meteo or
\* manual_override and not when the larger is exactly 3 times the smaller.
C14_CrossSourceExact ==
    ~IsNone(val_out) =>
        (CrossSourceFlagged <=>
            /\ val_in.depth_source = "synoptic_station"
            /\ ~IsNone(val_in.depth_cm) /\ ~IsNone(val_in.openmeteo_depth_cm)
            /\ Val(val_in.depth_cm) # 0 /\ Val(val_in.openmeteo_depth_cm) # 0
            /\ RatioAboveThreeExact(Max(Val(val_in.depth_cm), Val(val_in.openmeteo_depth_cm)),
                                    Min(Val(val_in.depth_cm), Val(val_in.openmeteo_depth_cm))))

\* ======================================================================
\* Claims about the written rows
\* ======================================================================
\* C15: in every committed state of the database all forecast rows of a
\* resort carry one fetched_at, that of the run that wrote them last.
C15_ForecastsFromOneRun ==
    \A a, b \in forecasts : a.resort_id = b.resort_id => a.fetched_at = b.fetched_at

\* The ranks of the rows holding each resort's latest score at a horizon
\* are 1..n without gap or repeat, follow score_total downwards, and put
\* the rows without a score_total last.
RankedInOrder(rows, horizon) ==
    LET latest == {s \in rows :
                      /\ s.horizon_days = horizon
                      /\ ~\E t \in rows : /\ t.resort_id = s.resort_id
                                           /\ t.horizon_days = horizon
                                           /\ t.scored_at > s.scored_at}
    IN  /\ \A s \in latest : ~IsNone(s.rank_global)
        /\ \A n \in 1..Cardinality(latest) :
              Cardinality({s \in latest : s.rank_global = Some(n)}) = 1
        /\ \A a, b \in latest :
              /\ (~IsNone(a.score_total) /\ ~IsNone(b.score_total)
                    /\ Val(a.score_total) > Val(b.score_total))
                      => Val(a.rank_global) < Val(b.rank_global)
              /\ (~IsNone(a.score_total) /\ IsNone(b.score_total))
                      => Val(a.rank_global) < Val(b.rank_global)

\* C16: when the ranking loop of a run has called update_global_ranks for
\* every horizon, the rows holding each resort's latest score at each
\* horizon carry the ranks 1..n with no gap and no repeat, a higher
\* score_total never has the larger rank number, and rows with a null
\* score_total rank after all others.
C16_RanksDenseAndOrdered ==
    [][\A r \in Runs : (pc[r] = "rank" /\ pc'[r] = "idle") =>
          \A n \in 1..Len(SCORE_HORIZONS) : RankedInOrder(scores', SCORE_HORIZONS[n])]_vars

\* The loop has ranked three resorts at horizon 0: one without score_total,
\* ranked 3, and two with equal score_total, ranked 1 and 2; the older row
\* of a resort keeps the rank it had.
C16_Witness ==
    /\ pc["admin"] = "idle"
    /\ \E a, b, c \in scores :
          /\ a.horizon_days = 0 /\ b.horizon_days = 0 /\ c.horizon_days = 0
          /\ a.scored_at = 2 /\ b.scored_at = 2 /\ c.scored_at = 2
          /\ a.score_total = Some(500) /\ b.score_total = Some(500) /\ IsNone(c.score_total)
          /\ a.rank_global = Some(1) /\ b.rank_global = Some(2) /\ c.rank_global = Some(3)
    /\ \E o \in scores : o.scored_at = 1 /\ o.rank_global = Some(1)

\* ======================================================================
\* Claims about the failure-rate alert
\* ======================================================================
\* The run has compared its failure rate.
RateCompared(r) == pc[r] \in {"snap", "commit", "score", "rank"}

\* C17: a run emits the failure-rate alert exactly when the failed resort
\* ids are more than 5% of the resorts (failed / resorts > 5 / 100), and
\* none at exactly 5% or below.
C17_AlertAboveFivePercent ==
    \A r \in Runs : RateCompared(r) =>
        (run[r].alert <=> 100 * Len(run[r].failed_ids) > 5 * Len(run[r].resorts))

\* A run with 1 failed resort out of 20, exactly 5%, has compared the rate
\* and emitted no alert.
C17_Witness ==
    \E r \in Runs :
        /\ RateCompared(r)
        /\ Len(run[r].resorts) = 20
        /\ Len(run[r].failed_ids) = 1
        /\ ~run[r].alert

\* A run with 2 failed resorts out of 21 has emitted the alert.
C17_WitnessAlert ==
    \E r \in Runs :
        /\ RateCompared(r)
        /\ Len(run[r].resorts) = 21
        /\ Len(run[r].failed_ids) = 2
        /\ run[r].alert

\* ======================================================================
\* Claims about the scorer
\* ======================================================================
\* A score in tenths of a point lies in [0, 100].
InScoreRange(x) == x >= 0 /\ x <= 1000

\* C18: every score row written for a reading with non-negative depth,
\* snowfall and wind, confidences in [0, 1], forecast offsets 0..15 and any
\* field null holds, at each of the horizons 0, 3, 7 and 14 and with the
\* default weights, a score_total and five sub-scores within [0, 100], the
\* temperature and base-depth scores being the adjusted ones.
C18_ScoresWithinRange ==
    \A s \in scores :
        /\ ~IsNone(s.score_total) /\ InScoreRange(Val(s.score_total))
        /\ InScoreRange(s.score_base_depth)
        /\ InScoreRange(s.score_fresh_snow)
        /\ InScoreRange(s.score_temperature)
        /\ InScoreRange(s.score_wind)
        /\ InScoreRange(s.score_forecast)

\* The scores of a north-facing resort above 3000 m in spring are written
\* for all four horizons: the raised temperature and base-depth scores and
\* the fresh-snow score sit at the cap of 100, and the total is above 0.
C18_Witness ==
    /\ \A n \in 1..Len(SCORE_HORIZONS) : \E s \in scores : s.horizon_days = SCORE_HORIZONS[n]
    /\ \E s \in scores :
          /\ s.horizon_days = 3
          /\ s.score_temperature = 1000
          /\ s.score_base_depth = 1000
          /\ s.score_fresh_snow = 1000
          /\ Val(s.score_total) > 0

\* The scores of a reading with every field null are written.
C18_WitnessNull ==
    \E r \in Runs :
        /\ pc[r] = "rank"
        /\ IsNone(run[r].weather[1].snow_depth_cm)
        /\ IsNone(run[r].weather[1].new_snow_72h_cm)
        /\ IsNone(run[r].weather[1].temperature_c)
        /\ IsNone(run[r].weather[1].wind_speed_kmh)
        /\ scores # {}

\* The call has returned for the temperature t, in tenths of a degree.
Returned(t) == temp_in = Some(t) /\ ~IsNone(temp_out)

C19_WitnessNull == IsNone(temp_in) /\ temp_out = Some(500)

\* C20: score_temperature returns 20 at 0 and at 1 degree, 60 at -1 and at
\* -4.9, 100 at -5, -10 and -15, 80 at -16 and at -25, 50 at -26 and below,
\* and 0 at 2.1 and above.
C20_BandEndsAsTested ==
    /\ (Returned(0) \/ Returned(10)) => Val(temp_out) = 200
    /\ (Returned(-10) \/ Returned(-49)) => Val(temp_out) = 600
    /\ (Returned(-50) \/ Returned(-100) \/ Returned(-150)) => Val(temp_out) = 1000
    /\ (Returned(-160) \/ Returned(-250)) => Val(temp_out) = 800
    /\ \A t \in (-MaxCold)..(-260) : Returned(t) => Val(temp_out) = 500
    /\ \A t \in 21..MaxTemp : Returned(t) => Val(temp_out) = 0

\* Both calls of compute_score have returned.
BothReturned == Len(score_in) = 2 /\ Len(score_out) = 2

\* The five weights of the second call are those of the first multiplied by
\* a common positive factor a / b.
Proportional(w1, w2) ==
    \E a, b \in 1..MaxFactor :
        /\ a # b
        /\ a * w1.base_depth = b * w2.base_depth
        /\ a * w1.fresh_snow = b * w2.fresh_snow
        /\ a * w1.temperature = b * w2.temperature
        /\ a * w1.wind = b * w2.wind
        /\ a * w1.forecast = b * w2.forecast

\* C21: two calls of compute_score that differ only in their custom
\* weights, the five weights of one being those of the other multiplied by a
\* common positive factor, return the same score_total.
C21_ScaledWeightsSameTotal ==
    (/\ BothReturned
     /\ score_in[1].forecast_days = score_in[2].forecast_days
     /\ ~IsNone(score_in[1].weights) /\ ~IsNone(score_in[2].weights)
     /\ Proportional(Val(score_in[1].weights), Val(score_in[2].weights)))
        => score_out[1].score_total = score_out[2].score_total

\* C22: two calls of compute_score at horizon 0 that differ only in the
\* list of forecast days return the same score_total and the same five
\* sub-scores, and the forecast-confidence sub-score is 100.
C22_HorizonZeroIgnoresForecast ==
    (/\ BothReturned
     /\ score_in[1].horizon_days = 0
     /\ score_in[1].weights = score_in[2].weights)
        => /\ score_out[1] = score_out[2]
           /\ score_out[1].score_forecast = 1000

\* The station of a slug in the map of the network asked.
NetworkMap(slug) == IF stn_in.network = "synoptic" THEN StationMap(slug) ELSE SnotelMap(slug)

\* The depth in mm of a raw value of the network asked.
NetworkDepth(value) ==
    IF stn_in.network = "synoptic" THEN _snow_depth_to_cm(value) ELSE SnotelDepthCm(value)

\* The positions of the response at which the station answers with a
\* non-null depth.
Answers(stid) ==
    {k \in 1..Len(Val(stn_in.response)) :
        /\ Val(stn_in.response)[k].stid = stid
        /\ ~IsNone(LatestNonNull(Val(stn_in.response)[k].depths))}

\* C23: the dictionary a station network's fetch returns holds, for every
\* requested resort whose station answered with a non-null depth, that
\* station's latest depth (also when several requested resorts share the
\* station), and holds no entry for a resort without a mapping or whose
\* station gave no non-null value; the call returns in every case.
C23_SharedStationReading ==
    ~IsNone(stn_out) =>
        \A sl \in Range(stn_in.slugs) :
            LET answered == /\ ~IsNone(stn_in.response) /\ ~IsNone(NetworkMap(sl))
                            /\ Answers(Val(NetworkMap(sl))) # {}
            IN  IF answered
                THEN /\ sl \in DOMAIN Val(stn_out)
                     /\ Val(stn_out)[sl].stid = Val(NetworkMap(sl))
                     /\ \E k \in Answers(Val(NetworkMap(sl))) :
                           Val(stn_out)[sl].snow_depth_cm =
                               NetworkDepth(Val(LatestNonNull(Val(stn_in.response)[k].depths)))
                ELSE sl \notin DOMAIN Val(stn_out)

\* What fetch_all_resorts returns for the same batch outcomes when no overlay
\* is applied.
BaseFetch ==
    fetch_all_resorts(FetchInput, [b \in 1..Len(FetchBatches) |-> FetchOutcome(b)],
                      FetchedAt, [id \in 1..NumFetch |-> None], FALSE)

\* The overlay of the call succeeded: the whole overlay did not fail, both
\* lookups succeeded and the grid data held snowfall values.
OverlaySucceeded ==
    /\ Val(fnws).nws_ok
    /\ Val(fnws).lookup.points_ok /\ Val(fnws).lookup.grid_ok
    /\ Val(fnws).lookup.values # <<>>

\* C24: in what fetch_all_resorts returns, a forecast day carries the
\* overlay's snowfall and the tag nws_hrrr exactly when its resort is a US
\* resort whose overlay fetch succeeded and the overlay has data for that
\* day; every other forecast day (overlay failed at the points lookup, at
\* the grid lookup or as a whole, no data for the day, resort outside the
\* US) is the model's day, and no other field of a reading and no failed id
\* differs from the fetch without overlay.
C24_OverlayTouchesOnlyItsDays ==
    ~IsNone(fout) =>
        /\ Val(fout).failed_ids = BaseFetch.failed_ids
        /\ Len(Val(fout).results) = Len(BaseFetch.results)
        /\ \A i \in 1..Len(Val(fout).results) :
              LET w == Val(fout).results[i]
                  b == BaseFetch.results[i]
              IN  /\ [w EXCEPT !.forecasts = b.forecasts] = b
                  /\ Len(w.forecasts) = Len(b.forecasts)
                  /\ \A k \in 1..Len(w.forecasts) :
                        IF /\ OverlaySucceeded
                           /\ FetchInput[w.resort_id].country = "US"
                           /\ b.forecasts[k].forecast_date \in DOMAIN Val(fnws).lookup.values
                        THEN w.forecasts[k] =
                                 [b.forecasts[k] EXCEPT
                                     !.snowfall_cm = Some(Val(fnws).lookup.values[b.forecasts[k].forecast_date]),
                                     !.source = "nws_hrrr"]
                        ELSE w.forecasts[k] = b.forecasts[k]

\* The overlay succeeded for a US resort: one of its forecast days carries
\* the overlay's snowfall, another one the model's, and a resort outside the
\* US was fetched as well.
C24_Witness ==
    /\ ~IsNone(fout) /\ OverlaySucceeded
    /\ \E i, j \in 1..Len(Val(fout).results) :
          /\ FetchInput[Val(fout).results[i].resort_id].country = "US"
          /\ \E k, m \in 1..Len(Val(fout).results[i].forecasts) :
                /\ Val(fout).results[i].forecasts[k].source = "nws_hrrr"
                /\ Val(fout).results[i].forecasts[k].snowfall_cm # BaseFetch.results[i].forecasts[k].snowfall_cm
                /\ Val(fout).results[i].forecasts[m].source # "nws_hrrr"
          /\ FetchInput[Val(fout).results[j].resort_id].country # "US"
          /\ Val(fout).results[j].forecasts # <<>>

\* The grid lookup of a US resort failed after its points lookup succeeded,
\* and the resort's forecast days were fetched.
C24_WitnessGridFailed ==
    /\ ~IsNone(fout) /\ Val(fnws).nws_ok
    /\ Val(fnws).lookup.points_ok /\ ~Val(fnws).lookup.grid_ok
    /\ Val(fnws).lookup.values # <<>>
    /\ \E i \in 1..Len(Val(fout).results) :
          /\ FetchInput[Val(fout).results[i].resort_id].country = "US"
          /\ Val(fout).results[i].forecasts # <<>>

\* The scheduled execution has returned.
RunEnded == started > 0 /\ pc["cron"] = "idle"

\* C25: whatever the batch requests and the station request meet (answers,
\* failures, timeouts, other exceptions), no request makes more than 3
\* attempts and the execution of run_pipeline eventually returns.
C25_RunFinishes ==
    /\ [](\A b \in 1..Len(tries) : Len(tries[b]) <= HTTP_RETRIES)
    /\ [](run["cron"].station_tries <= HTTP_RETRIES)
    /\ <>RunEnded

\* The execution returned although the batch request of its resorts was
\* given up after three failed attempts.
C25_Witness ==
    /\ RunEnded
    /\ \E b \in RunBatches : bst[b] = "gaveup" /\ tries[b] = <<"fail", "fail", "fail">>

\* The station request has failed three times while the readings of the
\* model wait to be processed.
C25_WitnessStation ==
    /\ pc["cron"] = "prev" /\ run["cron"].station_tries = HTTP_RETRIES
    /\ run["cron"].weather # <<>>

\* C26: the snapshot row a run writes for a reading carries, as its source,
\* the provenance of the depth it stores: that of the model when the model
\* depth was kept, that of the station when a station reading replaced it,
\* that of the manual override when an override was applied.
C26_SnapshotSourceIsProvenance ==
    [][\A r \in Runs :
          (pc[r] = "snap" /\ pc'[r] # "snap") =>
              \A i \in 1..Len(run[r].weather) :
                  \E x \in snapshots' :
                      /\ x.resort_id = run[r].weather[i].resort_id
                      /\ x.data_date = run[r].today
                      /\ x.fetched_at = run[r].weather[i].fetched_at
                      /\ x.snow_depth_cm = run[r].weather[i].snow_depth_cm
                      /\ x.source = run[r].weather[i].depth_source]_vars


\* ---------------------------------------------------------------- C27
\* The item the API returned for resort id, if its batch request succeeded.
OwnItems(id) ==
    UNION {{fitems[b][i] : i \in {j \in 1..Len(FetchBatchIds(b)) : FetchBatchIds(b)[j] = id}} :
              b \in {c \in 1..Len(FetchBatches) : bst[c] = "ok"}}

\* A reading without its forecast list, which the overlay may rewrite.
Observed(reading) == [reading EXCEPT !.forecasts = <<>>]

\* C27: whatever the order in which the batch requests ended, the readings
\* of a call are exactly those of the resorts whose own item came back
\* without an error, one per resort, and the reading attributed to a resort
\* id is derived from the item returned for that resort's own coordinates.
C27_AttributionIgnoresCompletionOrder ==
    fpc = "done" =>
        LET results == fout[1].results
        IN  /\ \A k \in 1..Len(results) :
                  /\ results[k].item_loc = results[k].resort_id
                  /\ \E item \in OwnItems(results[k].resort_id) :
                        /\ ~item.error
                        /\ Observed(results[k])
                             = Observed(ParseItem(results[k].resort_id, item, FetchedAt))
            /\ \A id \in 1..NumFetch :
                  CountResults(results, id)
                    = IF \E item \in OwnItems(id) : ~item.error THEN 1 ELSE 0

\* The later batch ended first, both succeeded, and the resorts of the two
\* batches got different items.
C27_Witness ==
    /\ fpc = "done" /\ forder = <<2, 1>>
    /\ bst[1] = "ok" /\ bst[2] = "ok"
    /\ Len(fout[1].results) = NumFetch
    /\ fout[1].results[1].snow_depth_cm # fout[1].results[NumFetch].snow_depth_cm

\* The batches ended in the order of their tasks.
C27_WitnessInOrder ==
    /\ fpc = "done" /\ forder = <<1, 2>>
    /\ bst[1] = "ok" /\ bst[2] = "ok"
    /\ Len(fout[1].results) = NumFetch
    /\ fout[1].results[1].snow_depth_cm # fout[1].results[NumFetch].snow_depth_cm


\* ---------------------------------------------------------------- C28
\* The override rows run r read as active and the operator has changed
\* since: with one execution at a time nothing else writes to them.
ChangedSinceRead(r) ==
    {o \in overrides :
        /\ o.resort_id \in DOMAIN run[r].active_overrides
        /\ run[r].active_overrides[o.resort_id].id = o.id
        /\ run[r].active_overrides[o.resort_id] # o}

\* C28: the write-back of a run leaves every override row as the operator's
\* request left it when that request committed after the run read the active
\* overrides: a cleared override stays inactive, a newly set one keeps its
\* depth, threshold, cumulative 0 and active flag.
C28_WriteBackKeepsOperatorAction ==
    [][\A r \in Runs :
          (pc[r] = "ovwrite" /\ pc'[r] = "snap") =>
              \A o \in ChangedSinceRead(r) : o \in overrides']_vars


\* ---------------------------------------------------------------- C29
\* The override rows run r writes back.
WrittenBack(r, rows) ==
    {o \in rows : \E k \in 1..Len(run[r].override_updates) :
                      run[r].override_updates[k].id = o.id}

\* C29: once a run has written back an override it processed, the row is
\* active only if its stored cumulative new snow is strictly below its stored
\* threshold, for every threshold an operator can set, 0 included.
C29_ActiveOnlyBelowThreshold ==
    [][\A r \in Runs :
          (pc[r] = "ovwrite" /\ pc'[r] = "snap") =>
              \A o \in WrittenBack(r, overrides') :
                  o.is_active =>
                      o.cumulative_new_snow_since_cm < o.new_snow_threshold_cm]_vars


\* ---------------------------------------------------------------- C30
\* The snapshots of a resort that executions begun before run r persisted.
EarlierSnapshots(r, id) ==
    {s \in snapshots : s.resort_id = id /\ s.fetched_at < run[r].started_at}

\* The depth of the most recent of them, None when there is none or its
\* depth is null.
EarlierDepth(r, id) ==
    IF EarlierSnapshots(r, id) = {} THEN None
    ELSE (CHOOSE s \in EarlierSnapshots(r, id) :
              \A t \in EarlierSnapshots(r, id) : t.fetched_at <= s.fetched_at).snow_depth_cm

\* The previous depth run r holds for a resort.
HeldDepth(previous_depths, id) ==
    IF id \in DOMAIN previous_depths THEN Some(previous_depths[id]) ELSE None

\* C30: a run reads the previous depths before it writes any snapshot, the
\* previous depth of a resort is the non-null depth of the resort's most
\* recent snapshot persisted by an earlier run (absent otherwise), and the
\* validation uses exactly the depths read then.
C30_PreviousDepthFromEarlierRun ==
    [][\A r \in Runs :
          /\ (pc[r] = "prev" /\ pc'[r] = "ovread") =>
                /\ \A s \in snapshots : s.fetched_at # run[r].started_at
                /\ \A id \in 1..NumResorts :
                      HeldDepth(run'[r].previous_depths, id) = EarlierDepth(r, id)
          /\ (pc[r] \notin {"idle", "prev"} /\ pc'[r] \notin {"idle", "prev"}) =>
                run'[r].previous_depths = run[r].previous_depths
          /\ (pc[r] = "ovwrite" /\ pc'[r] = "snap") =>
                \A i \in 1..Len(run'[r].weather) :
                    run'[r].weather[i].previous_depth_cm
                        = HeldDepth(run[r].previous_depths, run[r].weather[i].resort_id)]_vars

====
